---- MODULE Spec2Model ----
(***************************************************************************)
(* Model of the bitrix24_api_client request pipeline:                      *)
(*   - RequestLimiter (utils/requestLimiter.js, src/unnamed/part_008):     *)
(*     per-portal leaky bucket with a FIFO queue and one processing loop;  *)
(*   - Bitrix24API.call and its refresh path (src/index.js);               *)
(*   - bitrixFetch, the transport with its attempt budget                  *)
(*     (utils/bitrixFetch.js, src/unnamed/part_006).                       *)
(*                                                                         *)
(* Time is Date.now() in milliseconds.  The bucket counter is a double in  *)
(* the source; here it is kept in thousandths of a request, so that the    *)
(* leak (elapsed ms / 1000 * LEAK_RATE) is an integer.                     *)
(***************************************************************************)
EXTENDS Integers, Sequences, FiniteSets, TLC

VARIABLES
  now,              \* Date.now(), ms
  scenario,         \* workload: "free", "burst", "pair", "decay", "idle" (limiter), "call",
                    \* "fetch", "budget"
  portals,          \* RequestLimiter.portals: domain -> portal state
  procPc,           \* domain -> await point of the processQueue activation
  wakeAt,           \* domain -> deadline of the setTimeout the activation sleeps on
  observes,         \* number of limit breaches handed to handleResponse so far
  hEnq,             \* history: domain -> number of throttle calls
  hRelCount,        \* history: domain -> number of released admissions
  hLastRel,         \* history: domain -> id of the admission released last
  hRelTime,         \* history: domain -> time of the last release (-1: none)
  hLastGap,         \* history: domain -> time between the last two releases (-1: none)
  hSlept,           \* history: domain -> kinds of sleep since the last release
  hKinds,           \* history: domain -> kinds of sleep seen between two consecutive releases
  hBreachAt,        \* history: domain -> time of the last recorded limit breach (-1: none)
  hRelAfterBreach,  \* history: domain -> time of the last release after that breach (-1: none)
  resolved,         \* <<call, domain>>: throttle promises resolved whose continuation is due
  config,           \* Bitrix24API.config: is client_id / client_secret set
  store,            \* the credential record behind config.readAuth / config.writeAuth
  callPc,           \* call -> await point of Bitrix24API.call
  callArg,          \* call -> its arguments (method, auth)
  callAuth,         \* call -> appAuth, the record read from the store
  callNewAuth,      \* call -> newAuth of #refreshAuth
  callResult,       \* call -> what the promise of call settled with
  hMethodSent,      \* history: call -> method requests handed to the transport
  hRefreshSent,     \* history: call -> refresh requests handed to the transport
  hAdmitted,        \* history: call -> admissions the limiter released to the call
  hLimitAnswerAt,   \* history: call -> time of the last limit-breach answer it received (-1: none)
  hReadMiss,        \* history: call -> its last store read gave no valid record
  hFault,           \* history: call -> "validation" / "store" once one of them threw
  hAdmitDomain,     \* history: call -> domain of the admission released to it last
  hTrace,           \* history: call -> its requests, answers and store writes, in order
  fPc,              \* bitrixFetch: "idle", "sent", "backoff", "done"
  fTryes,           \* options.tryes (Undefined: omitted)
  fRemaining,       \* options.remainingTryes (Undefined until the first entry; NaN)
  fSent,            \* history: number of fetch() requests sent
  fUrl,             \* the URL of the request in flight
  fParams,          \* params: the HTTP verb and body of the request in flight
  fPause,           \* options.pause
  fAnswer,          \* the answer to the last request: a response, or the error fetch() threw
  fSleepCount,      \* history: number of backoff sleeps
  fLastDelay,       \* history: totalDelay of the last backoff sleep (-1: none)
  hFetchParams,     \* history: params of the first request
  fLog,             \* history: the kinds of the answers received, in order ("fetch")
  fResult,          \* what bitrixFetch returned
  actPc,            \* activation -> await point of a processQueue activation ("loops")
  actWake,          \* activation -> deadline of the setTimeout it sleeps on
  restarts,         \* pending setTimeout(0) callbacks of _scheduleQueueProcessingIfNeeded
  thrown,           \* number of logger calls that threw
  qPortal,          \* the portal state of the tenant in the queue-capped variant ("capped")
  qTimers,          \* deadlines of the setTimeout callbacks armed by its processQueue
  hCall,            \* history: the last enqueueRequest call and how it ended (the timers
                    \* its processQueue armed, whether the call stack ran out)
  hOrderOk,         \* history: every request was resolved after all that were queued before it
  server_endpoint,   \* auth.server_endpoint of the record a refresh is prepared for ("oauth")
  oauthEndpoint,    \* oauthEndpoint of #prepareOAuthRequest ("": not prepared yet)
  dRequest,         \* call -> the request callDirect handed to the transport ("direct")
  hReceived,        \* history: call -> the result the transport returned to callDirect
  iPc,              \* installApp: "idle", "writing" (awaiting config.writeAuth), "done" ("install")
  iRequest,         \* the payload handed to installApp
  iAuth,            \* the record handed to the credential writer
  iPath,            \* the branch of the handler taken: "headless", "ui", "none"
  iResult,          \* what the promise of installApp settled with
  hWriterCalls,     \* history: number of config.writeAuth invocations
  hWriteOutcome,    \* history: how config.writeAuth ended ("none": not called or not ended)
  logEnabled,       \* Logger.enabled ("log")
  logLevel,         \* Logger.level
  logData,          \* the data argument of the log call
  logCalled,        \* the level of the log call made ("none": not yet)
  logOutput         \* what the log call handed to the output

limVars == <<portals, procPc, wakeAt>>
callVars == <<config, store, callPc, callArg, callAuth, callNewAuth, callResult, hMethodSent,
              hRefreshSent, hAdmitted, hLimitAnswerAt, hReadMiss, hFault, hAdmitDomain, hTrace>>
fetchVars == <<fPc, fTryes, fRemaining, fSent, fUrl, fParams, fPause, fAnswer, fSleepCount,
               fLastDelay, hFetchParams, fLog, fResult>>
loopVars == <<actPc, actWake, restarts, thrown>>
capVars == <<qPortal, qTimers, hCall, hOrderOk>>
oauthVars == <<server_endpoint, oauthEndpoint>>
directVars == <<dRequest, hReceived>>
installVars == <<iPc, iRequest, iAuth, iPath, iResult, hWriterCalls, hWriteOutcome>>
logVars == <<logEnabled, logLevel, logData, logCalled, logOutput>>
extVars == <<loopVars, capVars, oauthVars, directVars, installVars, logVars>>
histVars == <<hEnq, hRelCount, hLastRel, hRelTime, hLastGap, hSlept, hKinds, hBreachAt,
              hRelAfterBreach>>
vars == <<now, scenario, portals, procPc, wakeAt, observes, hEnq, hRelCount, hLastRel,
          hRelTime, hLastGap, hSlept, hKinds, hBreachAt, hRelAfterBreach, resolved,
          config, store, callPc, callArg, callAuth, callNewAuth, callResult, hMethodSent,
          hRefreshSent, hAdmitted, hLimitAnswerAt, hReadMiss, hFault, hAdmitDomain, hTrace,
          fPc, fTryes, fRemaining, fSent, fUrl, fParams, fPause, fAnswer, fSleepCount,
          fLastDelay, hFetchParams, fLog, fResult, extVars>>

-----------------------------------------------------------------------------
(* Program constants of the limiter (the exported instance is built with    *)
(* no options, so the defaults apply).                                      *)
MAX_BUCKET == 50
LEAK_RATE == 2
MIN_REQUEST_INTERVAL == 150
MAX_BLOCK_TIME == 5000
MsPerSecond == 1000

(* Program constants of the queue-capped variant of the limiter. *)
MAX_QUEUE_SIZE == 1000
BlockTime7 == 5000

(* Bounds of the model. *)
MaxSteps == 8       \* free workload: the clock stops after MaxSteps quanta
MaxQueue == 2       \* free workload: throttle is not called with MaxQueue admissions pending
MaxObserve == 1     \* limit breaches observed in one run
MaxBurst == 74      \* burst workload: number of throttle calls issued at the first instant
MaxLate == 1        \* a timer fires at most MaxLate quanta after its deadline
MaxCalls == 2       \* concurrent calls of Bitrix24API.call
CallSteps == 4      \* calls: the clock stops after CallSteps quanta
PairSteps == 3      \* two tenants: the clock stops after PairSteps quanta
PairOps == 4        \* two tenants: throttle calls and observed breaches in one run
MaxRefresh == 2     \* the server answers expired_token to a call at most MaxRefresh times
MaxActs == 3       \* loops: processQueue activations alive at one time
MaxThrows == 1     \* loops: logger calls that throw in one run
LoopCalls == 3     \* loops: throttle calls in one run
LoopSteps == 3     \* loops: the clock stops after LoopSteps quanta
StackDepth == 2    \* capped: nested processQueue calls the call stack has room for
FloodExtra == 45   \* capped: throttle calls issued beyond MAX_QUEUE_SIZE
FloodSteps == 8    \* capped: the clock stops after FloodSteps quanta
MaxDepth == 3      \* log: objects are nested at most MaxDepth deep in a payload
DecaySteps == 6    \* decay: the clock stops after DecaySteps quanta
DecayCalls == 1    \* decay: throttle calls per tenant in one run
LongTryes == 33    \* budget: options.tryes of a fetch with a long attempt budget
JitterSpan == 64   \* backoff: every value of the jitter is tried up to this span
MaxTryes == 4       \* options.tryes ranges over 1 .. MaxTryes
BasePause == 10     \* options.pause is 0 or BasePause ms

\* the tenant of the stored credential record, and a second tenant
Tenant == "t.bx"
OtherTenant == "u.bx"
Domains == {Tenant, OtherTenant}

\* records of processQueue activations of one tenant
Acts == 1 .. MaxActs

\* the sum of f over the set S
RECURSIVE SumOver(_, _)
SumOver(f, S) ==
  IF S = {} THEN 0 ELSE LET x == CHOOSE y \in S : TRUE IN f[x] + SumOver(f, S \ {x})

Max(a, b) == IF a > b THEN a ELSE b

RECURSIVE GCD(_, _)
GCD(a, b) == IF b = 0 THEN a ELSE GCD(b, a % b)

\* Math.ceil((requestsToWaitFor / LEAK_RATE) * 1000) with requestsToWaitFor = 1
BucketWaitTime == (1 * MsPerSecond + LEAK_RATE - 1) \div LEAK_RATE

\* the counter value of MAX_BUCKET requests, and of one request
BucketCap == MAX_BUCKET * MsPerSecond
OneRequest == 1 * MsPerSecond

\* inactiveThreshold of cleanupPortals: 30 minutes
InactiveThreshold == 30 * 60 * 1000

\* The clock advances in quanta that divide every delay of the limiter.
Step == GCD(MAX_BLOCK_TIME, GCD(BucketWaitTime, MIN_REQUEST_INTERVAL))
\* Date.now() at the start: farther from 0 than the inactivity threshold of cleanupPortals
StartTime == InactiveThreshold + Step
\* the time a tenant was idle before the start: longer than its bucket needs to drain
IdleTime == 20 * Step

-----------------------------------------------------------------------------
(* Portal state *)

\* no entry in the portals map
NoPortal ==
  [present |-> FALSE, counter |-> 0, lastUpdate |-> 0, isBlocked |-> FALSE, blockUntil |-> 0,
   lastRequestTime |-> 0, queue |-> <<>>, isProcessingQueue |-> FALSE, totalRequests |-> 0]

\* getPortalState: the entry of the map, created at time t when missing
getPortalState(p, t) ==
  IF p.present THEN p
  ELSE [present |-> TRUE, counter |-> 0, lastUpdate |-> t, isBlocked |-> FALSE,
        blockUntil |-> 0, lastRequestTime |-> 0, queue |-> <<>>,
        isProcessingQueue |-> FALSE, totalRequests |-> 0]

\* the leak of `elapsed` ms, in thousandths of a request
LeakAmount(elapsed) == elapsed * LEAK_RATE

\* mutant of updateCounter: lastUpdate is not written
updateCounter_noStamp(p, t) ==
  LET elapsed == t - p.lastUpdate
      p1 == IF elapsed > 0
              THEN [p EXCEPT !.counter = Max(0, p.counter - LeakAmount(elapsed))]
              ELSE p
  IN IF p1.isBlocked /\ t > p1.blockUntil THEN [p1 EXCEPT !.isBlocked = FALSE] ELSE p1

updateCounter(p, t) ==
  LET elapsed == t - p.lastUpdate
      p1 == IF elapsed > 0
              THEN [p EXCEPT !.counter = Max(0, p.counter - LeakAmount(elapsed)),
                             !.lastUpdate = t]
              ELSE p
  IN IF p1.isBlocked /\ t > p1.blockUntil THEN [p1 EXCEPT !.isBlocked = FALSE] ELSE p1

\* _checkAndWaitForBlockage up to its await: <<portal, pc, timer deadline>>
CheckBlockage(p, t) ==
  IF p.isBlocked
    THEN IF p.blockUntil - t > 0
           THEN <<p, "sleepBlockage", t + (p.blockUntil - t)>>
           ELSE <<[p EXCEPT !.isBlocked = FALSE], "awaitBlockage", -1>>
    ELSE <<p, "awaitBlockage", -1>>

\* one pass of the while loop of processQueue up to its first await
LoopIteration(p, t) == CheckBlockage(updateCounter(p, t), t)

\* mutant of MinIntervalWait: the comparison is reversed, so a recent release is not waited for
MinIntervalWait_reversed(p, t) ==
  IF p.lastRequestTime > 0 /\ t - p.lastRequestTime > MIN_REQUEST_INTERVAL
    THEN MIN_REQUEST_INTERVAL - (t - p.lastRequestTime)
    ELSE 0

\* _waitForMinInterval: the time to sleep (0: no sleep)
MinIntervalWait(p, t) ==
  IF p.lastRequestTime > 0 /\ t - p.lastRequestTime < MIN_REQUEST_INTERVAL
    THEN MIN_REQUEST_INTERVAL - (t - p.lastRequestTime)
    ELSE 0

\* mutant of BucketFull: the bucket counts as full one request too late
BucketFull_late(p) == p.counter > BucketCap + OneRequest

\* the guard of _checkAndWaitForBucket
BucketFull(p) == p.counter >= BucketCap

\* portal.queue.push(task)
QueuePush(q, task) == Append(q, task)

\* mutant of QueueShift: pop() instead of shift()
QueueShift_pop(q) == <<q[Len(q)], SubSeq(q, 1, Len(q) - 1)>>

\* portal.queue.shift(): <<the task taken, the rest of the queue>>
QueueShift(q) == <<Head(q), Tail(q)>>

\* task.execute: the released admission is counted and stamped
TaskExecute(p, t) ==
  [p EXCEPT !.counter = p.counter + OneRequest, !.lastRequestTime = t]

\* the limit-breach test of handleResponse
IsLimitError(result) ==
  \/ result.error = "QUERY_LIMIT_EXCEEDED"
  \/ result.descrHasLimit
  \/ result.status = 503

\* the counter handleResponse sets: MAX_BUCKET * 0.9
PrefillCounter == (BucketCap * 9) \div 10

\* mutant of BlockPortal: the deadline of the block is not written
BlockPortal_noDeadline(p, t) ==
  [p EXCEPT !.isBlocked = TRUE, !.counter = PrefillCounter]

\* handleResponse on a limit breach: block flag, deadline and prefilled bucket
BlockPortal(p, t) ==
  [p EXCEPT !.isBlocked = TRUE, !.blockUntil = t + MAX_BLOCK_TIME, !.counter = PrefillCounter]

\* cleanupPortals at time t
cleanupPortals(ps, t) ==
  [d \in Domains |->
    IF ps[d].present /\ Len(ps[d].queue) = 0 /\ t - ps[d].lastRequestTime > InactiveThreshold
      THEN NoPortal ELSE ps[d]]

Sleeping(d) == procPc[d] \in {"sleepBlockage", "sleepMinInterval", "sleepBucket"}
Runnable(d) == procPc[d] \in {"awaitBlockage", "awaitMinInterval", "awaitBucket", "loopTest"}

-----------------------------------------------------------------------------
(* Limiter operations *)

\* throttle(domain, method), called by `owner`; starts processQueue when no loop is active
ThrottleBy(d, owner) ==
  LET p0 == getPortalState(portals[d], now)
      task == [id |-> hEnq[d] + 1, owner |-> owner, addedAt |-> now]
      p1 == [p0 EXCEPT !.totalRequests = p0.totalRequests + 1, !.queue = QueuePush(p0.queue, task)]
  IN /\ hEnq' = [hEnq EXCEPT ![d] = hEnq[d] + 1]
     /\ IF ~p1.isProcessingQueue
          THEN LET r == LoopIteration([p1 EXCEPT !.isProcessingQueue = TRUE], now)
               IN /\ portals' = [portals EXCEPT ![d] = r[1]]
                  /\ procPc' = [procPc EXCEPT ![d] = r[2]]
                  /\ wakeAt' = [wakeAt EXCEPT ![d] = r[3]]
                  /\ hSlept' = [hSlept EXCEPT ![d] =
                                  IF r[2] = "sleepBlockage" THEN hSlept[d] \cup {"block"} ELSE hSlept[d]]
          ELSE /\ portals' = [portals EXCEPT ![d] = p1]
               /\ hSlept' = [hSlept EXCEPT ![d] =
                               IF Sleeping(d) THEN hSlept[d] \cup {"arrival"} ELSE hSlept[d]]
               /\ UNCHANGED <<procPc, wakeAt>>

\* a direct throttle call of the workload
Throttle(d) ==
  /\ \/ scenario = "free" /\ d = Tenant /\ Len(portals[d].queue) < MaxQueue
     \/ scenario = "burst" /\ d = Tenant /\ now = StartTime /\ hEnq[d] < MaxBurst
     \/ scenario = "pair" /\ SumOver(hEnq, Domains) + observes < PairOps
     \/ scenario \in {"decay", "idle"} /\ hEnq[d] < DecayCalls
  /\ ThrottleBy(d, 0)
  /\ UNCHANGED <<callVars, fetchVars, extVars, resolved, now, scenario, observes, hRelCount, hLastRel, hRelTime, hLastGap,
                 hKinds, hBreachAt, hRelAfterBreach>>

\* a direct updateCounter(portal) call on the state of a tenant
UpdateCounter(d) ==
  /\ scenario \in {"decay", "idle"}
  /\ portals[d].present
  /\ portals[d].lastUpdate < now
  /\ portals' = [portals EXCEPT ![d] = updateCounter(portals[d], now)]
  /\ UNCHANGED <<callVars, fetchVars, extVars, resolved, now, scenario, procPc, wakeAt,
                 observes, histVars>>

\* processQueue resumes at the loop test: next pass, or the finally block
LoopTest(d) ==
  /\ procPc[d] = "loopTest"
  /\ LET p == portals[d]
     IN IF Len(p.queue) > 0
          THEN LET r == LoopIteration(p, now)
               IN /\ portals' = [portals EXCEPT ![d] = r[1]]
                  /\ procPc' = [procPc EXCEPT ![d] = r[2]]
                  /\ wakeAt' = [wakeAt EXCEPT ![d] = r[3]]
                  /\ hSlept' = [hSlept EXCEPT ![d] =
                                  IF r[2] = "sleepBlockage" THEN hSlept[d] \cup {"block"} ELSE hSlept[d]]
          ELSE \* finally: the queue is empty, so no restart is scheduled;
               \* Math.random() < 0.05 decides whether cleanupPortals runs
               /\ \E sweep \in BOOLEAN :
                    LET ps == [portals EXCEPT ![d] = [p EXCEPT !.isProcessingQueue = FALSE]]
                    IN portals' = IF sweep THEN cleanupPortals(ps, now) ELSE ps
               /\ procPc' = [procPc EXCEPT ![d] = "none"]
               /\ UNCHANGED <<wakeAt, hSlept>>
  /\ UNCHANGED <<callVars, fetchVars, extVars, resolved, now, scenario, observes, hEnq, hRelCount, hLastRel, hRelTime, hLastGap,
                 hKinds, hBreachAt, hRelAfterBreach>>

\* processQueue resumes after _checkAndWaitForBlockage returned false
WaitForMinInterval(d) ==
  /\ procPc[d] = "awaitBlockage"
  /\ LET w == MinIntervalWait(portals[d], now)
     IN IF w > 0
          THEN /\ procPc' = [procPc EXCEPT ![d] = "sleepMinInterval"]
               /\ wakeAt' = [wakeAt EXCEPT ![d] = now + w]
               /\ hSlept' = [hSlept EXCEPT ![d] = hSlept[d] \cup {"interval"}]
          ELSE /\ procPc' = [procPc EXCEPT ![d] = "awaitMinInterval"]
               /\ UNCHANGED <<wakeAt, hSlept>>
  /\ UNCHANGED <<callVars, fetchVars, extVars, resolved, now, scenario, portals, observes, hEnq, hRelCount, hLastRel, hRelTime,
                 hLastGap, hKinds, hBreachAt, hRelAfterBreach>>

\* processQueue resumes after _waitForMinInterval
CheckAndWaitForBucket(d) ==
  /\ procPc[d] = "awaitMinInterval"
  /\ IF BucketFull(portals[d])
       THEN /\ procPc' = [procPc EXCEPT ![d] = "sleepBucket"]
            /\ wakeAt' = [wakeAt EXCEPT ![d] = now + BucketWaitTime]
            /\ hSlept' = [hSlept EXCEPT ![d] = hSlept[d] \cup {"bucket"}]
       ELSE /\ procPc' = [procPc EXCEPT ![d] = "awaitBucket"]
            /\ UNCHANGED <<wakeAt, hSlept>>
  /\ UNCHANGED <<callVars, fetchVars, extVars, resolved, now, scenario, portals, observes, hEnq, hRelCount, hLastRel, hRelTime,
                 hLastGap, hKinds, hBreachAt, hRelAfterBreach>>

\* _executeNextTask: the head of the queue is released
ExecuteNextTask(d) ==
  /\ procPc[d] = "awaitBucket"
  /\ LET p == portals[d]
         sh == QueueShift(p.queue)
     IN /\ portals' = [portals EXCEPT ![d] = TaskExecute([p EXCEPT !.queue = sh[2]], now)]
        /\ hLastRel' = [hLastRel EXCEPT ![d] = sh[1].id]
  /\ procPc' = [procPc EXCEPT ![d] = "loopTest"]
  /\ hRelCount' = [hRelCount EXCEPT ![d] = hRelCount[d] + 1]
  /\ hRelTime' = [hRelTime EXCEPT ![d] = now]
  /\ hLastGap' = [hLastGap EXCEPT ![d] = IF hRelTime[d] < 0 THEN -1 ELSE now - hRelTime[d]]
  /\ hSlept' = [hSlept EXCEPT ![d] = {}]
  /\ hKinds' = [hKinds EXCEPT ![d] = IF hRelTime[d] < 0 THEN {} ELSE hKinds[d] \cup hSlept[d]]
  /\ hRelAfterBreach' = [hRelAfterBreach EXCEPT ![d] = IF hBreachAt[d] < 0 THEN -1 ELSE now]
  /\ LET owner == QueueShift(portals[d].queue)[1].owner
     IN resolved' = IF owner = 0 THEN resolved ELSE resolved \cup {<<owner, d>>}
  /\ UNCHANGED <<callVars, fetchVars, extVars, now, scenario, wakeAt, observes, hEnq, hBreachAt>>

\* the setTimeout the activation sleeps on fires
TimerFires(d) ==
  /\ Sleeping(d)
  /\ now >= wakeAt[d]
  /\ CASE procPc[d] = "sleepBlockage" ->
            /\ portals' = [portals EXCEPT ![d] = updateCounter(portals[d], now)]
            /\ procPc' = [procPc EXCEPT ![d] = "loopTest"]
       [] procPc[d] = "sleepMinInterval" ->
            /\ procPc' = [procPc EXCEPT ![d] = "awaitMinInterval"]
            /\ UNCHANGED portals
       [] procPc[d] = "sleepBucket" ->
            /\ portals' = [portals EXCEPT ![d] = updateCounter(portals[d], now)]
            /\ procPc' = [procPc EXCEPT ![d] = "loopTest"]
  /\ wakeAt' = [wakeAt EXCEPT ![d] = -1]
  /\ UNCHANGED <<callVars, fetchVars, extVars, resolved, now, scenario, observes, histVars>>

\* handleResponse(domain, result)
handleResponse(d, result) ==
  IF IsLimitError(result)
    THEN /\ portals' = [portals EXCEPT ![d] = BlockPortal(getPortalState(portals[d], now), now)]
         /\ hBreachAt' = [hBreachAt EXCEPT ![d] = now]
         /\ hRelAfterBreach' = [hRelAfterBreach EXCEPT ![d] = -1]
    ELSE UNCHANGED <<portals, hBreachAt, hRelAfterBreach>>

Results ==
  { [error |-> e, descrHasLimit |-> l, status |-> s] :
      e \in {"", "QUERY_LIMIT_EXCEEDED", "expired_token"}, l \in BOOLEAN, s \in {200, 503} }

\* a direct handleResponse call of the workload
Observe(d, result) ==
  /\ \/ scenario = "free" /\ d = Tenant
     \/ scenario = "burst" /\ d = Tenant /\ now = StartTime
     \/ scenario = "pair" /\ SumOver(hEnq, Domains) + observes < PairOps
     \/ scenario = "loops" /\ d = Tenant
  /\ observes < MaxObserve
  /\ handleResponse(d, result)
  /\ observes' = IF IsLimitError(result) THEN observes + 1 ELSE observes
  /\ UNCHANGED <<callVars, fetchVars, extVars, resolved, now, scenario, procPc, wakeAt, hEnq, hRelCount, hLastRel, hRelTime,
                 hLastGap, hSlept, hKinds>>

HandleResponse(d) == \E result \in Results : Observe(d, result)

-----------------------------------------------------------------------------
(* processQueue with its catch and finally blocks ("loops" workload).  The  *)
(* logger is whatever object setLogger was given (src/index.js:171), so a   *)
(* logger call inside the try block may throw; the activations of one       *)
(* tenant are told apart here.                                              *)

ActSleeping(a) == actPc[a] \in {"sleepBlockage", "sleepMinInterval", "sleepBucket"}
ActRunnable(a) == actPc[a] \in {"awaitBlockage", "awaitMinInterval", "awaitBucket", "loopTest"}

\* the next activation record to use: the lowest one that is not running
FreeAct(a) == actPc[a] = "none" /\ \A b \in Acts : b < a => actPc[b] # "none"

\* processQueue before its loop: "return" (empty queue), "busy" (a loop is active: the
\* return inside the try block), or "enter"
ProcessQueueEntry(p) ==
  IF Len(p.queue) = 0 THEN "return"
  ELSE IF p.isProcessingQueue THEN "busy"
  ELSE "enter"

\* _scheduleQueueProcessingIfNeeded: the number of restarts it schedules
RestartsScheduled(p) == IF Len(p.queue) > 0 THEN 1 ELSE 0

\* the finally block of processQueue, run by activation a (0: by a call that returned
\* inside the try block) on portal p with `pending` restarts outstanding; the sweep is
\* left out while another activation still holds the portal object
Finally(a, p, pending) ==
  /\ \E sweep \in BOOLEAN :
       LET ps == [portals EXCEPT ![Tenant] = [p EXCEPT !.isProcessingQueue = FALSE]]
       IN portals' = IF sweep /\ \A b \in Acts \ {a} : actPc[b] = "none"
                       THEN cleanupPortals(ps, now) ELSE ps
  /\ restarts' = pending + RestartsScheduled(p)
  /\ actPc' = [b \in Acts |-> IF b = a THEN "none" ELSE actPc[b]]
  /\ actWake' = [b \in Acts |-> IF b = a THEN -1 ELSE actWake[b]]

\* activation a runs the loop test and one pass of the loop up to its first await; when
\* the logger.warn of _checkAndWaitForBlockage throws, the catch and finally blocks run
LoopPass(a, p, pending) ==
  IF Len(p.queue) = 0
    THEN Finally(a, p, pending) /\ UNCHANGED thrown
    ELSE LET r == LoopIteration(p, now)
         IN IF r[2] = "sleepBlockage"
              THEN \/ /\ portals' = [portals EXCEPT ![Tenant] = r[1]]
                      /\ actPc' = [actPc EXCEPT ![a] = "sleepBlockage"]
                      /\ actWake' = [actWake EXCEPT ![a] = r[3]]
                      /\ restarts' = pending
                      /\ UNCHANGED thrown
                   \/ /\ thrown < MaxThrows
                      /\ thrown' = thrown + 1
                      /\ Finally(a, r[1], pending)
              ELSE /\ portals' = [portals EXCEPT ![Tenant] = r[1]]
                   /\ actPc' = [actPc EXCEPT ![a] = r[2]]
                   /\ restarts' = pending
                   /\ UNCHANGED <<actWake, thrown>>

loopsFrame == UNCHANGED <<callVars, fetchVars, capVars, oauthVars, directVars, installVars,
                          logVars,
                          resolved, now, scenario, procPc, wakeAt, observes>>

\* throttle(domain, method) of the workload; starts processQueue when the flag is clear
LoopsThrottle ==
  /\ scenario = "loops"
  /\ hEnq[Tenant] < LoopCalls
  /\ LET p0 == getPortalState(portals[Tenant], now)
         task == [id |-> hEnq[Tenant] + 1, owner |-> 0, addedAt |-> now]
         p1 == [p0 EXCEPT !.totalRequests = p0.totalRequests + 1,
                          !.queue = QueuePush(p0.queue, task)]
     IN IF ~p1.isProcessingQueue
          THEN \E a \in Acts :
                 /\ FreeAct(a)
                 /\ LoopPass(a, [p1 EXCEPT !.isProcessingQueue = TRUE], restarts)
          ELSE /\ portals' = [portals EXCEPT ![Tenant] = p1]
               /\ UNCHANGED loopVars
  /\ hEnq' = [hEnq EXCEPT ![Tenant] = hEnq[Tenant] + 1]
  /\ UNCHANGED <<hRelCount, hLastRel, hRelTime, hLastGap, hSlept, hKinds, hBreachAt,
                 hRelAfterBreach>>
  /\ loopsFrame

\* the setTimeout(0) callback of _scheduleQueueProcessingIfNeeded runs processQueue
RestartFires ==
  /\ scenario = "loops"
  /\ restarts > 0
  /\ \A a \in Acts : ~ActRunnable(a)
  /\ LET p == getPortalState(portals[Tenant], now)
         entry == ProcessQueueEntry(p)
     IN CASE entry = "return" ->
               /\ portals' = [portals EXCEPT ![Tenant] = p]
               /\ restarts' = restarts - 1
               /\ UNCHANGED <<actPc, actWake, thrown>>
          [] entry = "busy" ->
               /\ Finally(0, p, restarts - 1)
               /\ UNCHANGED thrown
          [] entry = "enter" ->
               \E a \in Acts :
                 /\ FreeAct(a)
                 /\ LoopPass(a, [p EXCEPT !.isProcessingQueue = TRUE], restarts - 1)
  /\ UNCHANGED histVars
  /\ loopsFrame

\* an activation resumes at the loop test
ActLoopTest(a) ==
  /\ actPc[a] = "loopTest"
  /\ LoopPass(a, portals[Tenant], restarts)
  /\ UNCHANGED histVars
  /\ loopsFrame

\* an activation resumes after _checkAndWaitForBlockage returned false
ActWaitForMinInterval(a) ==
  /\ actPc[a] = "awaitBlockage"
  /\ LET w == MinIntervalWait(portals[Tenant], now)
     IN IF w > 0
          THEN /\ actPc' = [actPc EXCEPT ![a] = "sleepMinInterval"]
               /\ actWake' = [actWake EXCEPT ![a] = now + w]
          ELSE /\ actPc' = [actPc EXCEPT ![a] = "awaitMinInterval"]
               /\ UNCHANGED actWake
  /\ UNCHANGED <<portals, restarts, thrown, histVars>>
  /\ loopsFrame

\* an activation resumes after _waitForMinInterval; the logger.warn of
\* _checkAndWaitForBucket may throw
ActCheckAndWaitForBucket(a) ==
  /\ actPc[a] = "awaitMinInterval"
  /\ IF BucketFull(portals[Tenant])
       THEN \/ /\ actPc' = [actPc EXCEPT ![a] = "sleepBucket"]
               /\ actWake' = [actWake EXCEPT ![a] = now + BucketWaitTime]
               /\ UNCHANGED <<portals, restarts, thrown>>
            \/ /\ thrown < MaxThrows
               /\ thrown' = thrown + 1
               /\ Finally(a, portals[Tenant], restarts)
       ELSE /\ actPc' = [actPc EXCEPT ![a] = "awaitBucket"]
            /\ UNCHANGED <<portals, actWake, restarts, thrown>>
  /\ UNCHANGED histVars
  /\ loopsFrame

\* _executeNextTask of an activation: queue.shift() of an empty queue gives undefined and
\* task.method throws; the logger.debug of _logBucketFillIfNeeded may throw after the
\* task was taken from the queue
ActExecuteNextTask(a) ==
  /\ actPc[a] = "awaitBucket"
  /\ LET p == portals[Tenant]
     IN IF Len(p.queue) = 0
          THEN /\ Finally(a, p, restarts)
               /\ UNCHANGED <<thrown, histVars>>
          ELSE LET sh == QueueShift(p.queue)
                   p1 == [p EXCEPT !.queue = sh[2]]
               IN \/ /\ p.totalRequests % 10 = 0
                     /\ thrown < MaxThrows
                     /\ thrown' = thrown + 1
                     /\ Finally(a, p1, restarts)
                     /\ UNCHANGED histVars
                  \/ /\ portals' = [portals EXCEPT ![Tenant] = TaskExecute(p1, now)]
                     /\ actPc' = [actPc EXCEPT ![a] = "loopTest"]
                     /\ hLastRel' = [hLastRel EXCEPT ![Tenant] = sh[1].id]
                     /\ hRelCount' = [hRelCount EXCEPT ![Tenant] = hRelCount[Tenant] + 1]
                     /\ hRelTime' = [hRelTime EXCEPT ![Tenant] = now]
                     /\ hLastGap' = [hLastGap EXCEPT ![Tenant] =
                                       IF hRelTime[Tenant] < 0 THEN -1 ELSE now - hRelTime[Tenant]]
                     /\ hRelAfterBreach' = [hRelAfterBreach EXCEPT ![Tenant] =
                                              IF hBreachAt[Tenant] < 0 THEN -1 ELSE now]
                     /\ UNCHANGED <<actWake, restarts, thrown, hEnq, hSlept, hKinds, hBreachAt>>
  /\ loopsFrame

\* the setTimeout an activation sleeps on fires
ActTimerFires(a) ==
  /\ ActSleeping(a)
  /\ now >= actWake[a]
  /\ \A b \in Acts : ~ActRunnable(b)
  /\ CASE actPc[a] = "sleepBlockage" ->
            /\ portals' = [portals EXCEPT ![Tenant] = updateCounter(portals[Tenant], now)]
            /\ actPc' = [actPc EXCEPT ![a] = "loopTest"]
       [] actPc[a] = "sleepMinInterval" ->
            /\ actPc' = [actPc EXCEPT ![a] = "awaitMinInterval"]
            /\ UNCHANGED portals
       [] actPc[a] = "sleepBucket" ->
            /\ portals' = [portals EXCEPT ![Tenant] = updateCounter(portals[Tenant], now)]
            /\ actPc' = [actPc EXCEPT ![a] = "loopTest"]
  /\ actWake' = [actWake EXCEPT ![a] = -1]
  /\ UNCHANGED <<restarts, thrown, histVars>>
  /\ loopsFrame

-----------------------------------------------------------------------------
(* The queue-capped variant of the limiter (src/unnamed/part_007), "capped"  *)
(* workload.  Its processQueue has no await: every call runs to its end in   *)
(* one step, arming setTimeout callbacks that call it again.                 *)

NoPortal7 ==
  [present |-> FALSE, counter |-> 0, lastUpdate |-> 0, isBlocked |-> FALSE, blockUntil |-> 0,
   queue |-> <<>>, isProcessingQueue |-> FALSE, nextRequestTime |-> 0]

\* getPortalState of the variant
getPortalState7(p, t) ==
  IF p.present THEN p
  ELSE [present |-> TRUE, counter |-> 0, lastUpdate |-> t, isBlocked |-> FALSE, blockUntil |-> 0,
        queue |-> <<>>, isProcessingQueue |-> FALSE, nextRequestTime |-> 0]

\* the pause after a release at bucket level `counter`: 0 up to a fill ratio of 0.8, else
\* Math.ceil((1000 / LEAK_RATE) * fillRatio^2); the counter is a multiple of a tenth of a
\* request here (every leak is one of a whole clock quantum)
SlowdownDelay(counter) ==
  IF 10 * counter > 8 * BucketCap
    THEN LET k == counter \div 100
             unit == (MAX_BUCKET * 10) * (MAX_BUCKET * 10)
         IN (MsPerSecond * k * k + LEAK_RATE * unit - 1) \div (LEAK_RATE * unit)
    ELSE 0

\* mutant of QueueIsFull: the queue is refused one admission too late
QueueIsFull_late(q) == Len(q) > MAX_QUEUE_SIZE

\* enqueueRequest: the overflow test
QueueIsFull(q) == Len(q) >= MAX_QUEUE_SIZE

\* the while loop of processQueue: <<portal, deadline of the timer armed (-1: none), ids
\* of the requests resolved>>
RECURSIVE ReleaseLoop7(_, _, _)
ReleaseLoop7(p, t, rel) ==
  IF Len(p.queue) = 0 THEN [p |-> p, timer |-> -1, rel |-> rel]
  ELSE IF p.nextRequestTime - t > 0
    THEN [p |-> p, timer |-> t + (p.nextRequestTime - t), rel |-> rel]
  ELSE LET request == p.queue[1]
           counter == p.counter + OneRequest
           delay == SlowdownDelay(counter)
           p1 == [p EXCEPT !.counter = counter, !.nextRequestTime = t + delay,
                           !.queue = Tail(p.queue)]
       IN IF Len(p1.queue) > 0 /\ delay > 0
            THEN [p |-> p1, timer |-> t + delay, rel |-> Append(rel, request.id)]
            ELSE ReleaseLoop7(p1, t, Append(rel, request.id))

\* processQueue of the variant, called with `depth` calls of it on the stack: the portal it
\* leaves, the deadlines of the timers armed and the number of setTimeout calls made, the
\* ids resolved, and whether the call stack was exhausted.  The finally block calls processQueue again while the queue is not empty;
\* the nested call fails with a RangeError once StackDepth calls are on the stack.
RECURSIVE processQueue7(_, _, _)
processQueue7(p, t, depth) ==
  IF p.isProcessingQueue \/ Len(p.queue) = 0
    THEN [p |-> p, timers |-> {}, armed |-> 0, rel |-> <<>>, exhausted |-> FALSE]
    ELSE LET p1 == updateCounter([p EXCEPT !.isProcessingQueue = TRUE], t)
             body == IF p1.isBlocked /\ p1.blockUntil - t > 0
                       THEN [p |-> p1, timer |-> t + (p1.blockUntil - t), rel |-> <<>>]
                       ELSE ReleaseLoop7(p1, t, <<>>)
             p2 == [body.p EXCEPT !.isProcessingQueue = FALSE]
             own == IF body.timer >= 0 THEN {body.timer} ELSE {}
             armed == IF body.timer >= 0 THEN 1 ELSE 0
         IN IF Len(p2.queue) > 0
              THEN IF depth >= StackDepth
                     THEN [p |-> p2, timers |-> own, armed |-> armed, rel |-> body.rel,
                           exhausted |-> TRUE]
                     ELSE LET n == processQueue7(p2, t, depth + 1)
                          IN [p |-> n.p, timers |-> own \cup n.timers,
                              armed |-> armed + n.armed,
                              rel |-> body.rel \o n.rel, exhausted |-> n.exhausted]
              ELSE [p |-> p2, timers |-> own, armed |-> armed, rel |-> body.rel,
                    exhausted |-> FALSE]

\* are the ids of seq increasing and all above `last`
RECURSIVE Increasing(_, _)
Increasing(seq, last) ==
  IF seq = <<>> THEN TRUE
  ELSE Head(seq) > last /\ Increasing(Tail(seq), Head(seq))

\* the requests resolved by one call of processQueue enter the history
Released7(r) ==
  /\ hRelCount' = [hRelCount EXCEPT ![Tenant] = hRelCount[Tenant] + Len(r.rel)]
  /\ hLastRel' = [hLastRel EXCEPT ![Tenant] =
                    IF r.rel = <<>> THEN hLastRel[Tenant] ELSE r.rel[Len(r.rel)]]
  /\ hOrderOk' = (hOrderOk /\ Increasing(r.rel, hLastRel[Tenant]))

cappedFrame ==
  UNCHANGED <<callVars, fetchVars, loopVars, oauthVars, directVars, installVars, logVars,
              resolved, now,
              scenario,
              limVars, observes,
              hRelTime, hLastGap, hSlept, hKinds, hBreachAt, hRelAfterBreach>>

\* throttle(domain, method) of the variant: enqueueRequest rejects when the queue is full,
\* else appends the request and calls processQueue
EnqueueRequest7 ==
  /\ scenario = "capped"
  /\ now = StartTime
  /\ hEnq[Tenant] < MAX_QUEUE_SIZE + FloodExtra
  /\ hEnq' = [hEnq EXCEPT ![Tenant] = hEnq[Tenant] + 1]
  /\ LET p0 == getPortalState7(qPortal, now)
     IN IF QueueIsFull(p0.queue)
          THEN /\ qPortal' = p0
               /\ hCall' = [id |-> hEnq[Tenant] + 1, lenBefore |-> Len(p0.queue),
                            rejected |-> TRUE, lenAfter |-> Len(p0.queue),
                            armed |-> 0, exhausted |-> FALSE]
               /\ UNCHANGED <<qTimers, hRelCount, hLastRel, hOrderOk>>
          ELSE LET request == [id |-> hEnq[Tenant] + 1, owner |-> 0, addedAt |-> now]
                   p1 == [p0 EXCEPT !.queue = QueuePush(p0.queue, request)]
                   r == processQueue7(p1, now, 1)
               IN /\ qPortal' = r.p
                  /\ qTimers' = qTimers \cup r.timers
                  /\ hCall' = [id |-> hEnq[Tenant] + 1, lenBefore |-> Len(p0.queue),
                               rejected |-> FALSE, lenAfter |-> Len(p1.queue),
                               armed |-> r.armed, exhausted |-> r.exhausted]
                  /\ Released7(r)
  /\ cappedFrame

\* handleResponse of the variant: a limit breach blocks the portal for 5000 ms
BlockPortal7(p, t) ==
  [p EXCEPT !.isBlocked = TRUE, !.blockUntil = t + BlockTime7, !.counter = PrefillCounter]

\* a handleResponse call of the workload, before the first admission
HandleResponse7 ==
  /\ scenario = "capped"
  /\ hEnq[Tenant] = 0
  /\ ~qPortal.present
  /\ \E result \in Results :
       /\ IsLimitError(result)
       /\ qPortal' = BlockPortal7(getPortalState7(qPortal, now), now)
  /\ UNCHANGED <<qTimers, hCall, hOrderOk, hEnq, hRelCount, hLastRel>>
  /\ cappedFrame

\* the setTimeout callbacks armed for one deadline run processQueue
TimerFires7 ==
  /\ scenario = "capped"
  /\ \E deadline \in qTimers :
       /\ now >= deadline
       /\ LET r == processQueue7(getPortalState7(qPortal, now), now, 1)
          IN /\ qPortal' = r.p
             /\ qTimers' = (qTimers \ {deadline}) \cup r.timers
             /\ Released7(r)
  /\ UNCHANGED <<hCall, hEnq>>
  /\ cappedFrame

\* time passes: never while a continuation is ready to run, nor past a timer's latest firing
Tick ==
  /\ \A d \in Domains : ~Runnable(d)
  /\ \A d \in Domains : Sleeping(d) => now < wakeAt[d] + MaxLate * Step
  /\ resolved = {}
  /\ \A a \in Acts : ~ActRunnable(a)
  /\ \A a \in Acts : ActSleeping(a) => now < actWake[a] + MaxLate * Step
  /\ restarts = 0
  /\ \A deadline \in qTimers : now < deadline + MaxLate * Step
  /\ \/ scenario = "free" /\ now < StartTime + MaxSteps * Step
     \/ /\ scenario = "capped"
        /\ hEnq[Tenant] = MAX_QUEUE_SIZE + FloodExtra
        /\ now < StartTime + FloodSteps * Step
     \/ scenario = "loops" /\ now < StartTime + LoopSteps * Step
     \/ scenario = "burst" /\ \E d \in Domains : hEnq[d] = MaxBurst /\ Sleeping(d)
     \/ scenario = "call" /\ now < StartTime + CallSteps * Step
     \/ scenario = "pair" /\ now < StartTime + PairSteps * Step
     \/ scenario \in {"decay", "idle"} /\ now < StartTime + DecaySteps * Step
  /\ now' = now + Step
  /\ UNCHANGED <<callVars, fetchVars, extVars, resolved, scenario, limVars, observes, histVars>>

-----------------------------------------------------------------------------
(* Bitrix24API.call (src/index.js) *)

Calls == 1 .. MaxCalls
Methods == {"", "user.current"}
\* the auth argument of call: undefined, an object without a domain, or an object naming
\* a portal
NoHint == [isObject |-> FALSE, domain |-> ""]
Hint(d) == [isObject |-> TRUE, domain |-> d]
Hints == {NoHint, Hint("")} \cup {Hint(d) : d \in Domains}

\* validateRequest: "ok", or the message of the Error it throws
validateRequest(method, auth, cfg) ==
  IF method = "" THEN "method parameter is required"
  ELSE IF ~auth.isObject THEN "auth object is required"
  ELSE IF ~cfg.client_id THEN "client_id required"
  ELSE IF ~cfg.client_secret THEN "client_secret required"
  ELSE "ok"

validateAuth(auth) ==
  auth.access_token # "" /\ auth.domain # "" /\ auth.refresh_token # ""
    /\ auth.client_endpoint # ""

AuthRecord(d, token, refresh) ==
  [access_token |-> token, domain |-> d, refresh_token |-> refresh, client_endpoint |-> "E"]

NoAuth == [access_token |-> "", domain |-> "", refresh_token |-> "", client_endpoint |-> ""]

\* how config.readAuth may end: with an exception, with nothing, or with a record
ReadOutcomes == {"throws", "nothing", "record"}

\* the records config.readAuth may give: the stored one, or one lacking a field
ReadRecords ==
  {store, [store EXCEPT !.access_token = ""], [store EXCEPT !.domain = ""],
   [store EXCEPT !.refresh_token = ""], [store EXCEPT !.client_endpoint = ""]}

\* mutant of getAuth: a record is accepted when it names a domain
getAuth_domain(outcome, authData) == outcome = "record" /\ authData.domain # ""

\* #getAuth: is there a record, and is it valid
getAuth(outcome, authData) == outcome = "record" /\ validateAuth(authData)

Pending == [kind |-> "pending", error |-> "", status |-> 0]
Rejected == [kind |-> "rejected", error |-> "", status |-> 0]
NullResult == [kind |-> "null", error |-> "", status |-> 0]
Envelope(r) == [kind |-> "envelope", error |-> r.error, status |-> r.status]

\* handleError(err)
handleError(err) == [kind |-> "envelope", error |-> "module_error", status |-> 0]

\* what #executeRequest returns for a method request
TransportResults == { r \in Results : ~r.descrHasLimit }

\* what #executeRequest returns for the refresh request: an error envelope, new tokens
\* with the client endpoint (with no domain, or with the domain of the OAuth server), or
\* new tokens alone
RefreshAnswers ==
  { [error |-> "invalid_grant", access_token |-> "", refresh_token |-> "", client_endpoint |-> "",
     domain |-> ""],
    [error |-> "", access_token |-> "T2", refresh_token |-> "R2", client_endpoint |-> "E",
     domain |-> ""],
    [error |-> "", access_token |-> "T2", refresh_token |-> "R2", client_endpoint |-> "E",
     domain |-> "oauth.bitrix.info"],
    [error |-> "", access_token |-> "T2", refresh_token |-> "R2", client_endpoint |-> "",
     domain |-> ""] }

\* the kind of a refresh answer, for the history of the call
RefreshKind(updatedAuth) ==
  IF updatedAuth.error # "" THEN "refreshError"
  ELSE IF updatedAuth.client_endpoint = "" THEN "refreshTokens"
  ELSE "refreshRecord"

\* mutant of NewAuth: the domain of the refresh answer is kept
NewAuth_spread(updatedAuth, auth) ==
  [access_token |-> updatedAuth.access_token, domain |-> updatedAuth.domain,
   refresh_token |-> updatedAuth.refresh_token, client_endpoint |-> updatedAuth.client_endpoint]

\* newAuth of #refreshAuth: {...updatedAuth, domain: auth.domain}
NewAuth(updatedAuth, auth) ==
  [access_token |-> updatedAuth.access_token, domain |-> auth.domain,
   refresh_token |-> updatedAuth.refresh_token, client_endpoint |-> updatedAuth.client_endpoint]

\* the promise of call settles with `result`
Settle(c, result) ==
  /\ callPc' = [callPc EXCEPT ![c] = "done"]
  /\ callResult' = [callResult EXCEPT ![c] = result]

limiterUnchanged == UNCHANGED <<portals, procPc, wakeAt, hEnq, hSlept>>

\* an event is appended to the history of the call
Log(c, event) == hTrace' = [hTrace EXCEPT ![c] = Append(hTrace[c], event)]

\* mutant of ThrottleDomain: the limiter is keyed by the domain of the hint
ThrottleDomain_hint(appAuth, auth) == auth.domain

\* #makeBitrixApiCall: the key handed to requestLimiter.throttle
ThrottleDomain(appAuth, auth) == appAuth.domain

\* mutant of RefreshFailed: the error of the refresh answer is not looked at
RefreshFailed_never(updatedAuth) == FALSE

\* #refreshAuth: if (updatedAuth.error)
RefreshFailed(updatedAuth) == updatedAuth.error # ""

\* mutant of WriteSucceeded: a write that returned false counts as done
WriteSucceeded_any(isSetAppSettings) == TRUE

\* #refreshAuth: if (isSetAppSettings)
WriteSucceeded(isSetAppSettings) == isSetAppSettings = "true"

\* call(method, params, auth) up to its first await: validateRequest, then config.readAuth
CallStart(c) ==
  /\ scenario = "call"
  /\ callPc[c] = "idle"
  /\ \E method \in Methods, auth \in Hints :
       /\ callArg' = [callArg EXCEPT ![c] = [method |-> method, auth |-> auth]]
       /\ IF validateRequest(method, auth, config) # "ok"
            THEN /\ Settle(c, Rejected)
                 /\ hFault' = [hFault EXCEPT ![c] = "validation"]
            ELSE /\ callPc' = [callPc EXCEPT ![c] = "readAuth"]
                 /\ UNCHANGED <<callResult, hFault>>
  /\ UNCHANGED <<config, store, callAuth, callNewAuth, hMethodSent, hRefreshSent, hAdmitted,
                 hLimitAnswerAt, hReadMiss, hAdmitDomain, hTrace>>
  /\ UNCHANGED <<fetchVars, extVars, resolved, now, scenario, limVars, observes, histVars>>

\* #makeBitrixApiCall resumes with the answer of config.readAuth and calls throttle
ReadAuthReturns(c) ==
  /\ callPc[c] = "readAuth"
  /\ \E outcome \in ReadOutcomes, authData \in ReadRecords :
       IF outcome = "throws"
         THEN /\ Settle(c, Rejected)
              /\ hFault' = [hFault EXCEPT ![c] = "store"]
              /\ limiterUnchanged
              /\ UNCHANGED <<callAuth, hReadMiss>>
         ELSE IF ~getAuth(outcome, authData)
           THEN /\ Settle(c, handleError("AuthError"))
                /\ hReadMiss' = [hReadMiss EXCEPT ![c] = TRUE]
                /\ limiterUnchanged
                /\ UNCHANGED <<callAuth, hFault>>
           ELSE /\ callAuth' = [callAuth EXCEPT ![c] = authData]
                /\ hReadMiss' = [hReadMiss EXCEPT ![c] = FALSE]
                /\ ThrottleBy(ThrottleDomain(authData, callArg[c].auth), c)
                /\ callPc' = [callPc EXCEPT ![c] = "throttled"]
                /\ UNCHANGED <<callResult, hFault>>
  /\ UNCHANGED <<config, store, callArg, callNewAuth, hMethodSent, hRefreshSent, hAdmitted,
                 hLimitAnswerAt, hAdmitDomain, hTrace>>
  /\ UNCHANGED <<fetchVars, extVars, resolved, now, scenario, observes, hRelCount, hLastRel, hRelTime,
                 hLastGap, hKinds, hBreachAt, hRelAfterBreach>>

\* #makeBitrixApiCall resumes after throttle: the method request goes to the transport
AfterThrottle(c) ==
  /\ callPc[c] = "throttled"
  /\ \E d \in Domains :
       /\ <<c, d>> \in resolved
       /\ resolved' = resolved \ {<<c, d>>}
       /\ hAdmitDomain' = [hAdmitDomain EXCEPT ![c] = d]
  /\ Log(c, "method")
  /\ hAdmitted' = [hAdmitted EXCEPT ![c] = hAdmitted[c] + 1]
  /\ hMethodSent' = [hMethodSent EXCEPT ![c] = hMethodSent[c] + 1]
  /\ callPc' = [callPc EXCEPT ![c] = "inflight"]
  /\ UNCHANGED <<config, store, callArg, callAuth, callNewAuth, callResult, hRefreshSent,
                 hLimitAnswerAt, hReadMiss, hFault>>
  /\ UNCHANGED <<fetchVars, extVars, now, scenario, limVars, observes, histVars>>

\* #makeBitrixApiCall resumes with the transport's result; on expired_token it enters
\* #refreshAuth, which hands the refresh request to the transport (query.this_auth is
\* never set on a query built by call)
MethodResponse(c) ==
  /\ callPc[c] = "inflight"
  /\ \E result \in TransportResults :
       /\ result.error = "expired_token" => hRefreshSent[c] < MaxRefresh
       /\ hLimitAnswerAt' = [hLimitAnswerAt EXCEPT ![c] =
                               IF IsLimitError(result) THEN now ELSE hLimitAnswerAt[c]]
       /\ IF result.error = "expired_token"
            THEN /\ hRefreshSent' = [hRefreshSent EXCEPT ![c] = hRefreshSent[c] + 1]
                 /\ callPc' = [callPc EXCEPT ![c] = "refreshInflight"]
                 /\ hTrace' = [hTrace EXCEPT ![c] = hTrace[c] \o <<"expired", "refresh">>]
                 /\ UNCHANGED callResult
            ELSE /\ Settle(c, Envelope(result))
                 /\ Log(c, "answer")
                 /\ UNCHANGED hRefreshSent
  /\ UNCHANGED <<config, store, callArg, callAuth, callNewAuth, hMethodSent, hAdmitted,
                 hReadMiss, hFault, hAdmitDomain>>
  /\ UNCHANGED <<fetchVars, extVars, resolved, now, scenario, limVars, observes, histVars>>

\* #refreshAuth resumes with the answer to the refresh request
RefreshResponse(c) ==
  /\ callPc[c] = "refreshInflight"
  /\ \E updatedAuth \in RefreshAnswers :
       IF RefreshFailed(updatedAuth)
         THEN /\ Settle(c, [kind |-> "envelope", error |-> updatedAuth.error, status |-> 0])
              /\ Log(c, RefreshKind(updatedAuth))
              /\ UNCHANGED callNewAuth
         ELSE LET newAuth == NewAuth(updatedAuth, callAuth[c])
                  answer == RefreshKind(updatedAuth)
              IN IF validateAuth(newAuth)
                   THEN \* #setAuth calls config.writeAuth(newAuth)
                        /\ callNewAuth' = [callNewAuth EXCEPT ![c] = newAuth]
                        /\ callPc' = [callPc EXCEPT ![c] = "writeAuth"]
                        /\ hTrace' = [hTrace EXCEPT ![c] = hTrace[c] \o <<answer, "write">>]
                        /\ UNCHANGED callResult
                   ELSE /\ Settle(c, NullResult)
                        /\ Log(c, answer)
                        /\ UNCHANGED callNewAuth
  /\ UNCHANGED <<config, store, callArg, callAuth, hMethodSent, hRefreshSent, hAdmitted,
                 hLimitAnswerAt, hReadMiss, hFault, hAdmitDomain>>
  /\ UNCHANGED <<fetchVars, extVars, resolved, now, scenario, limVars, observes, histVars>>

\* #refreshAuth resumes with the answer of config.writeAuth and calls this.call again
\* with newAuth as the auth argument
WriteAuthReturns(c) ==
  /\ callPc[c] = "writeAuth"
  /\ \E isSetAppSettings \in {"true", "false", "throws"} :
       IF isSetAppSettings = "throws"
         THEN /\ Settle(c, Rejected)
              /\ hFault' = [hFault EXCEPT ![c] = "store"]
              /\ Log(c, "writeThrows")
              /\ UNCHANGED <<store, callArg>>
         ELSE /\ store' = IF isSetAppSettings = "true" THEN callNewAuth[c] ELSE store
              /\ Log(c, IF isSetAppSettings = "true" THEN "writeTrue" ELSE "writeFalse")
              /\ IF WriteSucceeded(isSetAppSettings)
                   THEN LET auth == Hint(callNewAuth[c].domain)
                        IN /\ callArg' = [callArg EXCEPT ![c].auth = auth]
                           /\ IF validateRequest(callArg[c].method, auth, config) # "ok"
                                THEN /\ Settle(c, Rejected)
                                     /\ hFault' = [hFault EXCEPT ![c] = "validation"]
                                ELSE /\ callPc' = [callPc EXCEPT ![c] = "readAuth"]
                                     /\ UNCHANGED <<callResult, hFault>>
                   ELSE /\ Settle(c, NullResult)
                        /\ UNCHANGED <<callArg, hFault>>
  /\ UNCHANGED <<config, callAuth, callNewAuth, hMethodSent, hRefreshSent, hAdmitted,
                 hLimitAnswerAt, hReadMiss, hAdmitDomain>>
  /\ UNCHANGED <<fetchVars, extVars, resolved, now, scenario, limVars, observes, histVars>>

-----------------------------------------------------------------------------
(* Bitrix24API.callDirect (src/index.js), "direct" workload *)

\* the directAuth argument of callDirect: undefined, or an object with the stored access
\* token or another one, and with a client endpoint or none ("")
DirectAuths ==
  {[isObject |-> FALSE, domain |-> "", access_token |-> "", client_endpoint |-> ""]} \cup
  { [isObject |-> TRUE, domain |-> Tenant, access_token |-> t, client_endpoint |-> e] :
      t \in {"T", "D"}, e \in {"", "F"} }

\* no request was handed to the transport
NoRequest == [url |-> "", auth |-> "", domain |-> ""]

\* no result was received from the transport
NoReceived == [error |-> "none", descrHasLimit |-> FALSE, status |-> 0]

\* string concatenation with a field: an absent field reads "undefined"
Str(field) == IF field = "" THEN "undefined" ELSE field

\* #prepareApiRequest(query, appSettings): the URL, the auth parameter of the body and
\* the domain of the log context
prepareApiRequest(query, appSettings) ==
  [url |-> Str(appSettings.client_endpoint) \o query.method \o ".json",
   auth |-> appSettings.access_token,
   domain |-> appSettings.domain]

\* mutant of DirectSettings: the request is prepared from the stored record
DirectSettings_stored(directAuth, stored) == stored

\* callDirect: the appSettings it hands to #prepareApiRequest
DirectSettings(directAuth, stored) == directAuth

directFrame ==
  UNCHANGED <<fetchVars, loopVars, capVars, oauthVars, installVars, logVars, resolved, now,
              scenario, limVars, observes, histVars>>

\* callDirect(method, params, directAuth) up to its await: validateRequest and
\* #prepareApiRequest, then the request goes to the transport; an Error thrown by
\* validateRequest is caught and turned into an envelope
DirectStart(c) ==
  /\ scenario = "direct"
  /\ callPc[c] = "idle"
  /\ \E method \in Methods, directAuth \in DirectAuths :
       /\ callArg' = [callArg EXCEPT ![c] = [method |-> method, auth |-> directAuth]]
       /\ IF validateRequest(method, directAuth, config) # "ok"
            THEN /\ Settle(c, handleError("Error"))
                 /\ hFault' = [hFault EXCEPT ![c] = "validation"]
                 /\ UNCHANGED <<dRequest, hMethodSent, hTrace>>
            ELSE /\ dRequest' = [dRequest EXCEPT ![c] =
                        prepareApiRequest([method |-> method],
                                          DirectSettings(directAuth, store))]
                 /\ hMethodSent' = [hMethodSent EXCEPT ![c] = hMethodSent[c] + 1]
                 /\ Log(c, "method")
                 /\ callPc' = [callPc EXCEPT ![c] = "directInflight"]
                 /\ UNCHANGED <<callResult, hFault>>
  /\ UNCHANGED <<config, store, callAuth, callNewAuth, hRefreshSent, hAdmitted,
                 hLimitAnswerAt, hReadMiss, hAdmitDomain, hReceived>>
  /\ directFrame

\* callDirect resumes with the transport's result and returns it
DirectResponse(c) ==
  /\ callPc[c] = "directInflight"
  /\ \E result \in TransportResults :
       /\ hReceived' = [hReceived EXCEPT ![c] = result]
       /\ Settle(c, Envelope(result))
       /\ Log(c, IF result.error = "expired_token" THEN "expired" ELSE "answer")
  /\ UNCHANGED <<config, store, callArg, callAuth, callNewAuth, hMethodSent, hRefreshSent,
                 hAdmitted, hLimitAnswerAt, hReadMiss, hFault, hAdmitDomain, dRequest>>
  /\ directFrame

-----------------------------------------------------------------------------
(* Bitrix24API.installApp (src/index.js) and the install handler            *)
(* (src/src/install.js), "install" workload.  An absent field is ""; the  *)
(* DOMAIN field of a payload is written DOMAIN_.                            *)

EVENT_TYPES == [APP_INSTALL |-> "ONAPPINSTALL"]
PLACEMENT_TYPES == [DEFAULT |-> "DEFAULT"]

\* the nested auth record of a payload: absent, complete, or lacking its refresh token
NestedAuths == {NoAuth, AuthRecord(Tenant, "T2", "R2"), AuthRecord(Tenant, "T2", "")}

\* the payloads handed to installApp: undefined, null, a string, or an object
Payloads ==
  { [type |-> t, event |-> "", auth |-> NoAuth, PLACEMENT |-> "", AUTH_ID |-> "",
     REFRESH_ID |-> "", DOMAIN_ |-> ""] : t \in {"undefined", "null", "string"} } \cup
  { [type |-> "object", event |-> e, auth |-> a, PLACEMENT |-> p, AUTH_ID |-> i,
     REFRESH_ID |-> r, DOMAIN_ |-> d] :
      e \in {"", "ONAPPINSTALL", "ONAPPUPDATE"}, a \in NestedAuths,
      p \in {"", "DEFAULT", "CRM_LEAD_LIST_MENU"}, i \in {"", "T3"}, r \in {"", "R3"},
      d \in {"", Tenant} }

NoPayload ==
  [type |-> "undefined", event |-> "", auth |-> NoAuth, PLACEMENT |-> "", AUTH_ID |-> "",
   REFRESH_ID |-> "", DOMAIN_ |-> ""]

\* what the promise of installApp settled with
InstallPending ==
  [kind |-> "pending", error |-> "", rest_only |-> FALSE, install |-> FALSE,
   description |-> FALSE, auth |-> NoAuth]
InstallRejected == [InstallPending EXCEPT !.kind = "rejected"]

\* the catch block of the handler: the install_error envelope
InstallError ==
  [kind |-> "resolved", error |-> "install_error", rest_only |-> FALSE, install |-> FALSE,
   description |-> TRUE, auth |-> NoAuth]

\* the result object of the handler
InstallResult(rest_only, install, auth) ==
  [kind |-> "resolved", error |-> "", rest_only |-> rest_only, install |-> install,
   description |-> FALSE, auth |-> auth]

\* mutant of NotInstalled: a payload of neither shape is answered with install_error
NotInstalled_error == InstallError

\* the handler when neither condition was met: the result with a description
NotInstalled == [InstallResult(TRUE, FALSE, NoAuth) EXCEPT !.description = TRUE]

\* the logger.info call before the try block reads request.auth: a TypeError for
\* undefined and null
EntryLogThrows(request) == request.type \in {"undefined", "null"}

\* !request || typeof request !== 'object'
NotAnObject(request) == request.type # "object"

\* event === EVENT_TYPES.APP_INSTALL && auth
IsHeadless(request) == request.event = EVENT_TYPES.APP_INSTALL /\ request.auth # NoAuth

\* PLACEMENT === PLACEMENT_TYPES.DEFAULT
IsUI(request) == request.PLACEMENT = PLACEMENT_TYPES.DEFAULT

\* createAuthObject: does it throw (!AUTH_ID || !DOMAIN)
MandatoryMissing(params) == params.AUTH_ID = "" \/ params.DOMAIN_ = ""

\* createAuthObject: the record it builds
createAuthObject(params) ==
  [access_token |-> params.AUTH_ID, domain |-> params.DOMAIN_,
   refresh_token |-> params.REFRESH_ID,
   client_endpoint |-> "https://" \o params.DOMAIN_ \o "/rest/"]

\* how config.writeAuth may end: true, false, an Error thrown, or a value thrown that is
\* not an Error
WriteOutcomes == {"true", "false", "throwsError", "throwsValue"}

installFrame ==
  UNCHANGED <<config, callPc, callArg, callAuth, callNewAuth, callResult, hMethodSent,
              hRefreshSent, hAdmitted, hLimitAnswerAt, hReadMiss, hFault, hAdmitDomain,
              hTrace, fetchVars, loopVars, capVars, oauthVars, directVars, logVars, resolved, now,
              scenario, limVars, observes, histVars>>

\* the handler hands `auth` to setAuthFunction: #setAuth calls config.writeAuth when
\* validateAuth accepts the record, and gives false otherwise
SetAuth(path, auth) ==
  IF validateAuth(auth)
    THEN /\ iPc' = "writing"
         /\ iAuth' = auth
         /\ hWriterCalls' = hWriterCalls + 1
         /\ UNCHANGED iResult
    ELSE /\ iPc' = "done"
         /\ iResult' = InstallResult(path = "headless", FALSE, auth)
         /\ UNCHANGED <<iAuth, hWriterCalls>>

\* Bitrix24API.installApp(auth) up to the first await of the handler
InstallStart ==
  /\ scenario = "install"
  /\ iPc = "idle"
  /\ \E request \in Payloads :
       /\ iRequest' = request
       /\ IF EntryLogThrows(request)
            THEN /\ iPc' = "done"
                 /\ iResult' = InstallRejected
                 /\ UNCHANGED <<iAuth, iPath, hWriterCalls>>
          ELSE IF NotAnObject(request)
            THEN /\ iPc' = "done"
                 /\ iResult' = InstallError
                 /\ UNCHANGED <<iAuth, iPath, hWriterCalls>>
          ELSE IF IsHeadless(request)
            THEN /\ iPath' = "headless"
                 /\ SetAuth("headless", request.auth)
          ELSE IF IsUI(request)
            THEN /\ iPath' = "ui"
                 /\ IF MandatoryMissing(request)
                      THEN /\ iPc' = "done"
                           /\ iResult' = InstallError
                           /\ UNCHANGED <<iAuth, hWriterCalls>>
                      ELSE SetAuth("ui", createAuthObject(request))
          ELSE /\ iPc' = "done"
               /\ iResult' = NotInstalled
               /\ UNCHANGED <<iAuth, iPath, hWriterCalls>>
  /\ UNCHANGED <<store, hWriteOutcome>>
  /\ installFrame

\* the handler resumes with the outcome of config.writeAuth; an Error is caught and
\* answered with install_error; a thrown value that is not an Error makes getErrorCode
\* throw inside the catch block of the headless path (error.message is undefined)
InstallWriteReturns ==
  /\ iPc = "writing"
  /\ iPc' = "done"
  /\ \E outcome \in WriteOutcomes :
       /\ hWriteOutcome' = outcome
       /\ CASE outcome = "true" ->
                 /\ store' = iAuth
                 /\ iResult' = InstallResult(iPath = "headless", TRUE, iAuth)
            [] outcome = "false" ->
                 /\ iResult' = InstallResult(iPath = "headless", FALSE, iAuth)
                 /\ UNCHANGED store
            [] outcome = "throwsError" ->
                 /\ iResult' = InstallError
                 /\ UNCHANGED store
            [] outcome = "throwsValue" ->
                 /\ iResult' = IF iPath = "headless" THEN InstallRejected ELSE InstallError
                 /\ UNCHANGED store
  /\ UNCHANGED <<iRequest, iAuth, iPath, hWriterCalls>>
  /\ installFrame

-----------------------------------------------------------------------------
(* Logger (src/utils/buildQuery.js), "log" workload.  A JavaScript value is  *)
(* a record [t, s, f]: its type ("undefined", "string", "object", "error"),  *)
(* its text when it is a string, and its own enumerable properties when it   *)
(* is an object or an Error.                                                 *)

SENSITIVE_PARAMS ==
  {"auth", "access_token", "refresh_token", "client_secret", "token", "password", "key",
   "secret", "code"}

\* the keys _safeStringify leaves out
StringifyKeys == {"auth", "access_token", "refresh_token", "Authorization"}

levelMap == [debug |-> 0, info |-> 1, warn |-> 2, error |-> 3]
LogLevels == {"debug", "info", "warn", "error"}

NoData == [t |-> "undefined", s |-> "", f |-> <<>>]
StringValue(text) == [t |-> "string", s |-> text, f |-> <<>>]
ObjectValue(key, value) == [t |-> "object", s |-> "", f |-> (key :> value)]
ErrorValue(key, value) == [t |-> "error", s |-> "", f |-> (key :> value)]

Redacted == StringValue("[REDACTED]")
DepthLimit == StringValue("[Depth limit exceeded]")

\* the field names of the payloads tried
LogKeys == SENSITIVE_PARAMS \cup {"Authorization", "note", "error"}

\* the values nested at most d objects deep
RECURSIVE LogValues(_)
LogValues(d) ==
  IF d = 0 THEN {StringValue("RAW")}
  ELSE {StringValue("RAW")} \cup {ObjectValue(key, value) : key \in LogKeys, value \in LogValues(d - 1)}

\* the data argument of a log call: none, an object, or an object whose error is an
\* Error with a property of its own
LogPayloads ==
  {NoData}
    \cup {ObjectValue(key, value) : key \in LogKeys, value \in LogValues(MaxDepth - 1)}
    \cup {ObjectValue("error", ErrorValue(key, value)) :
            key \in LogKeys, value \in LogValues(MaxDepth - 2)}

\* _shouldLog
shouldLog(enabled, configured, level) == enabled /\ levelMap[level] >= levelMap[configured]

\* _processNestedObject: a copy ({...obj}: a plain object, whatever obj was) whose
\* sensitive keys are masked and whose nested objects are processed
RECURSIVE processNestedObject(_)
processNestedObject(obj) ==
  IF obj.t \notin {"object", "error"} THEN obj
  ELSE [t |-> "object", s |-> "",
        f |-> [key \in DOMAIN obj.f |->
                 IF key \in SENSITIVE_PARAMS THEN Redacted
                 ELSE processNestedObject(obj.f[key])]]

\* _processLogData: a copy of data whose nested objects are processed; its own string
\* fields are only looked at for URLs
processLogData(data) ==
  IF data.t = "undefined" THEN data
  ELSE [t |-> "object", s |-> "",
        f |-> [key \in DOMAIN data.f |->
                 IF data.f[key].t \in {"object", "error"}
                   THEN processNestedObject(data.f[key])
                   ELSE data.f[key]]]

\* prepareForStringify of _safeStringify
RECURSIVE prepareForStringify(_, _)
prepareForStringify(obj, depth) ==
  IF depth > 10 THEN DepthLimit
  ELSE IF obj.t = "error"
    THEN [t |-> "object", s |-> "",
          f |-> [key \in DOMAIN obj.f |-> prepareForStringify(obj.f[key], depth + 1)]
                  @@ ("name" :> StringValue("Error") @@ "message" :> StringValue("failed"))]
  ELSE IF obj.t # "object" THEN obj
  ELSE [t |-> "object", s |-> "",
        f |-> [key \in DOMAIN obj.f |->
                 IF key \in StringifyKeys THEN Redacted
                 ELSE prepareForStringify(obj.f[key], depth + 1)]]

\* processedData?.error instanceof Error
ErrorIsError(processedData) ==
  /\ processedData.t = "object"
  /\ "error" \in DOMAIN processedData.f
  /\ processedData.f["error"].t = "error"

\* log(level, message, data): what is handed to this.logger[level] after the message
\* (NoData: the message alone)
LogArgument(data) ==
  LET processedData == processLogData(data)
  IN IF ErrorIsError(processedData)
       THEN [processedData EXCEPT !.f["error"] =
               [t |-> "object", s |-> "",
                f |-> processedData.f["error"].f
                        @@ ("name" :> StringValue("Error") @@ "message" :> StringValue("failed"))]]
       ELSE IF data.t # "undefined" THEN prepareForStringify(processedData, 0)
       ELSE NoData

NotEmitted == [emitted |-> FALSE, data |-> NoData]

logFrame ==
  UNCHANGED <<callVars, fetchVars, loopVars, capVars, oauthVars, directVars, installVars,
              resolved, now, scenario, limVars, observes, histVars>>

\* one call of logger.debug / info / warn / error with the payload
LoggerLog ==
  /\ scenario = "log"
  /\ logCalled = "none"
  /\ \E level \in LogLevels :
       /\ logCalled' = level
       /\ logOutput' = IF shouldLog(logEnabled, logLevel, level)
                         THEN [emitted |-> TRUE, data |-> LogArgument(logData)]
                         ELSE NotEmitted
  /\ UNCHANGED <<logEnabled, logLevel, logData>>
  /\ logFrame

-----------------------------------------------------------------------------
(* The OAuth endpoint of the refresh request (src/index.js #prepareOAuthRequest, *)
(* src/utils/requestUtils.js convertToOAuthEndpoint), "oauth" workload.          *)

\* #OAUTH_TOKEN_ENDPOINT
OAUTH_TOKEN_ENDPOINT == "https://oauth.bitrix.info/oauth/token/"

\* the values of auth.server_endpoint tried: absent (""), or scheme, host, digits, top-level
\* domain and path put together
ServerEndpoints ==
  {""} \cup
  { scheme \o host \o digits \o tld \o path :
      scheme \in {"https://", "http://", "HTTPS://"},
      host \in {"oauth.bitrix", "oauth.bitri", "evil.bitrix", "oauthxbitrix"},
      digits \in {"", "2", "24", "x"},
      tld \in {".info", ".tech", ".com", "xinfo"},
      path \in {"/rest", "/rest/", "/rest//", "/rest/x", "", "/REST", "/oauth/token/"} }

Digit == {"0", "1", "2", "3", "4", "5", "6", "7", "8", "9"}

\* \d*
IsDigits(s) == \A i \in 1 .. Len(s) : SubSeq(s, i, i) \in Digit

\* str.endsWith(suffix)
EndsWith(str, suffix) ==
  Len(str) >= Len(suffix) /\ SubSeq(str, Len(str) - Len(suffix) + 1, Len(str)) = suffix

\* does str match ^https://oauth\.bitrix\d*\.(tech|info)<path>$
MatchesBitrixOAuth(str, path) ==
  LET prefix == "https://oauth.bitrix"
  IN \E tld \in {"tech", "info"} :
       LET suffix == "." \o tld \o path
       IN /\ Len(str) >= Len(prefix) + Len(suffix)
          /\ SubSeq(str, 1, Len(prefix)) = prefix
          /\ EndsWith(str, suffix)
          /\ IsDigits(SubSeq(str, Len(prefix) + 1, Len(str) - Len(suffix)))

\* mutant of NormalizedUrl: every trailing slash is removed
RECURSIVE NormalizedUrl_all(_)
NormalizedUrl_all(serverEndpoint) ==
  IF EndsWith(serverEndpoint, "/")
    THEN NormalizedUrl_all(SubSeq(serverEndpoint, 1, Len(serverEndpoint) - 1))
    ELSE serverEndpoint

\* convertToOAuthEndpoint: serverEndpoint.endsWith('/') ? serverEndpoint.slice(0, -1) : ...
NormalizedUrl(serverEndpoint) ==
  IF EndsWith(serverEndpoint, "/")
    THEN SubSeq(serverEndpoint, 1, Len(serverEndpoint) - 1)
    ELSE serverEndpoint

\* convertToOAuthEndpoint: false, or the URL with "/rest" replaced by "/oauth/token/"
convertToOAuthEndpoint(serverEndpoint) ==
  LET normalizedUrl == NormalizedUrl(serverEndpoint)
  IN IF ~MatchesBitrixOAuth(normalizedUrl, "/rest")
       THEN [isString |-> FALSE, url |-> ""]
       ELSE [isString |-> TRUE,
             url |-> SubSeq(normalizedUrl, 1, Len(normalizedUrl) - Len("/rest"))
                       \o "/oauth/token/"]

\* isValidOAuthEndpoint (utils/validationUtils): the shape test of the converted URL
isValidOAuthEndpoint(convertedEndpoint) ==
  convertedEndpoint.isString /\ MatchesBitrixOAuth(convertedEndpoint.url, "/oauth/token/")

\* #prepareOAuthRequest: the endpoint the refresh request goes to
OAuthEndpointOf(endpoint) ==
  IF endpoint # ""
    THEN LET convertedEndpoint == convertToOAuthEndpoint(endpoint)
         IN IF isValidOAuthEndpoint(convertedEndpoint)
              THEN convertedEndpoint.url
              ELSE OAUTH_TOKEN_ENDPOINT
    ELSE OAUTH_TOKEN_ENDPOINT

\* #prepareOAuthRequest for a record with the given server_endpoint
PrepareOAuthRequest ==
  /\ scenario = "oauth"
  /\ oauthEndpoint = ""
  /\ oauthEndpoint' = OAuthEndpointOf(server_endpoint)
  /\ UNCHANGED <<server_endpoint, callVars, fetchVars, loopVars, capVars, directVars,
                 installVars, logVars, resolved, now,
                 scenario, limVars, observes, histVars>>

-----------------------------------------------------------------------------
(* bitrixFetch (utils/bitrixFetch.js, src/unnamed/part_006) *)

Undefined == -1

\* the number NaN: undefined - 1, and every sum with it
NaN == -2

\* params of a request: verb and body
Params == {[method |-> "POST", body |-> "auth=T"], [method |-> "GET", body |-> ""]}
NoParams == [method |-> "", body |-> ""]

Pauses == {0, BasePause}

\* what fetch() may resolve with (status, error name of the parsed body, Location header)
\* or throw (error code, and whether its message matches /timeout|connection reset/i)
Response(class, status, error, location) ==
  [class |-> class, status |-> status, error |-> error, location |-> location,
   code |-> "", timeoutMessage |-> FALSE]
Thrown(code, timeoutMessage) ==
  [class |-> "throw", status |-> 0, error |-> "", location |-> FALSE,
   code |-> code, timeoutMessage |-> timeoutMessage]
NoAnswer == Response("", 0, "", FALSE)

Responses2xx == {Response("2xx", 200, "", FALSE)}
Responses3xx == {Response("3xx", 302, "", l) : l \in BOOLEAN}
Responses4xx ==
  {Response("4xx", st, e, FALSE) : st \in {401, 404},
                                   e \in {"", "expired_token", "ERROR_METHOD_NOT_FOUND"}}
Responses5xx == {Response("5xx", st, e, FALSE) : st \in {500, 503}, e \in {"", "INTERNAL_SERVER_ERROR"}}
ResponsesOther == {Response("other", 101, "", FALSE)}
Throws == {Thrown("ECONNRESET", FALSE), Thrown("", TRUE), Thrown("", FALSE)}

RetryableCodes ==
  {"ECONNRESET", "ETIMEDOUT", "ENETUNREACH", "EPIPE", "ECONNABORTED", "ENOTFOUND", "ECONNREFUSED"}

isRetryable(error) == error.code \in RetryableCodes \/ error.timeoutMessage

\* what bitrixFetch returns: the parsed body, a BitrixApiError, or the error fetch() threw
FetchResult(kind, status, body, retriesExhausted) ==
  [kind |-> kind, status |-> status, body |-> body, retries_exhausted |-> retriesExhausted]
NoResult == FetchResult("", 0, "", FALSE)
parseResponse(response) == FetchResult("body", 0, response.error, FALSE)
client(response) == FetchResult("client_error", response.status, response.error, FALSE)
server(response) == FetchResult("server_error", response.status, response.error, FALSE)
redirect(response) == FetchResult("redirect_error", response.status, response.error, FALSE)
unexpectedStatus(response) == FetchResult("unexpected_status", response.status, "", FALSE)
\* mutant of network: the retries_exhausted flag is dropped
network_unflagged(error, retriesExhausted) == FetchResult("network_error", 0, error.code, FALSE)

network(error, retriesExhausted) == FetchResult("network_error", 0, error.code, retriesExhausted)
RawError(error) == FetchResult("thrown", 0, error.code, FALSE)

\* the attempt accounting at the entry of bitrixFetch
EntryRemaining(remainingTryes, tryes) ==
  LET remaining == IF remainingTryes = Undefined THEN tryes ELSE remainingTryes
  IN IF remaining \in {Undefined, NaN} THEN NaN ELSE remaining - 1

\* x <= 0 for a number or NaN (every comparison with NaN is false)
NotPositive(x) == x # NaN /\ x <= 0

\* mutant of RedirectExhausted: one redirect more is followed
RedirectExhausted_late(remainingTryes) == remainingTryes < 0

\* handleRedirect: the budget test
RedirectExhausted(remainingTryes) == NotPositive(remainingTryes)

\* mutant of IsExpiredToken: every named error of the body is passed through
IsExpiredToken_anyError(errorData) == errorData.body # ""

\* handleClientError: errorData.error === 'expired_token'
IsExpiredToken(errorData) == errorData.body = "expired_token"

\* mutant of RedirectParams: the redirect is followed with GET and no body
RedirectParams_get(params) == [method |-> "GET", body |-> ""]

\* handleRedirect: the params handed to the next bitrixFetch
RedirectParams(params) == params

\* handleServerError / handleFetchError: the budget test
MayRetry(remainingTryes) == remainingTryes # NaN /\ remainingTryes > 0

\* x << 1 on 32-bit signed integers: bit 31 of the result is its sign
Double32(x) ==
  IF x >= 1073741824 THEN (x - 1073741824 - 1073741824) * 2
  ELSE IF x < -1073741824 THEN (x + 1073741824 + 1073741824) * 2
  ELSE 2 * x

RECURSIVE ShiftBy(_, _)
ShiftBy(x, count) == IF count = 0 THEN x ELSE ShiftBy(Double32(x), count - 1)

\* x << n: the shift count is n & 31
ShiftLeft(x, n) == ShiftBy(x, n % 32)

\* waitExponentialBackoff: exponentialPause
ExponentialPause(baseDelay, attempt) == baseDelay * ShiftLeft(1, attempt)

\* waitExponentialBackoff: the values of totalDelay = floor(exponentialPause + jitter),
\* jitter = Math.random() * 0.3 * exponentialPause with 0 <= Math.random() < 1
\* Beyond a span of JitterSpan the least and the greatest value are tried; for a
\* negative pause Math.random() = 0 is tried.
TotalDelays(baseDelay, attempt) ==
  LET exponentialPause == ExponentialPause(baseDelay, attempt)
      span == 3 * (exponentialPause \div 10) + (3 * (exponentialPause % 10) - 1) \div 10
  IN IF exponentialPause < 0 THEN {exponentialPause}
     ELSE IF span <= JitterSpan THEN exponentialPause .. exponentialPause + span
     ELSE {exponentialPause, exponentialPause + span}

\* bitrixFetch is entered (first call, or re-entered by a handler): one request is sent
FetchEnter(url, params) ==
  /\ fSent <= LongTryes
  /\ fRemaining' = EntryRemaining(fRemaining, fTryes')
  /\ fSent' = fSent + 1
  /\ fUrl' = url
  /\ fParams' = params
  /\ fPc' = "sent"
  /\ UNCHANGED <<fSleepCount, fLastDelay>>

FetchReturn(result) ==
  /\ fPc' = "done"
  /\ fResult' = result
  /\ UNCHANGED <<fTryes, fRemaining, fSent, fUrl, fParams, fPause, fSleepCount, fLastDelay>>

\* waitExponentialBackoff(pause, tryes - remainingTryes) is called: no sleep when pause is 0
StartBackoff ==
  /\ fPc' = "backoff"
  /\ IF fPause = 0
       THEN UNCHANGED <<fSleepCount, fLastDelay>>
       ELSE /\ fSleepCount' = fSleepCount + 1
            /\ \E totalDelay \in TotalDelays(fPause, fTryes - fRemaining) :
                 fLastDelay' = totalDelay
  /\ UNCHANGED <<fTryes, fRemaining, fSent, fUrl, fParams, fPause, fResult>>

\* the answer to the request in flight arrives
Receive(answer) ==
  /\ fAnswer' = answer
  /\ fLog' = IF scenario # "fetch" THEN fLog
             ELSE Append(fLog, IF answer.class = "throw"
                                 THEN (IF isRetryable(answer) THEN "neterr" ELSE "fatal")
                                 ELSE answer.class)
  /\ UNCHANGED hFetchParams

fetchFrame == UNCHANGED <<callVars, extVars, resolved, now, scenario, limVars, observes, histVars>>

\* the options.tryes tried: short budgets ("fetch"), or a long one and none ("budget")
Budgets == IF scenario = "fetch" THEN 1 .. MaxTryes ELSE {LongTryes, Undefined}

\* bitrixFetch(url, params, options) with options.tryes = tryes and options.pause = pause
FetchCall ==
  /\ scenario \in {"fetch", "budget"}
  /\ fPc = "idle"
  /\ \E tryes \in Budgets, pause \in (IF scenario = "fetch" THEN Pauses ELSE {1}),
        params \in Params :
       /\ fTryes' = tryes
       /\ fPause' = pause
       /\ hFetchParams' = params
       /\ FetchEnter("url", params)
  /\ UNCHANGED <<fAnswer, fLog, fResult>>
  /\ fetchFrame

\* a 2xx answer: handleSuccessResponse
Answer2xx ==
  /\ fPc = "sent"
  /\ \E response \in Responses2xx :
       /\ Receive(response)
       /\ FetchReturn(parseResponse(response))
  /\ fetchFrame

\* a 3xx answer: handleRedirect
Answer3xx ==
  /\ fPc = "sent"
  /\ \E response \in Responses3xx :
       /\ Receive(response)
       /\ IF ~response.location THEN FetchReturn(redirect(response))
          ELSE IF RedirectExhausted(fRemaining) THEN FetchReturn(redirect(response))
          ELSE /\ fTryes' = fTryes
               /\ fPause' = fPause
               /\ FetchEnter("location", RedirectParams(fParams))
               /\ UNCHANGED fResult
  /\ fetchFrame

\* a 4xx answer: handleClientError
Answer4xx ==
  /\ fPc = "sent"
  /\ \E response \in Responses4xx :
       /\ Receive(response)
       /\ IF IsExpiredToken(parseResponse(response))
            THEN FetchReturn(parseResponse(response))
            ELSE FetchReturn(client(response))
  /\ fetchFrame

\* a 5xx answer: handleServerError, up to its backoff sleep
Answer5xx ==
  /\ fPc = "sent"
  /\ \E response \in Responses5xx :
       /\ Receive(response)
       /\ IF MayRetry(fRemaining) THEN StartBackoff ELSE FetchReturn(server(response))
  /\ fetchFrame

\* a status outside 2xx - 5xx
AnswerOther ==
  /\ fPc = "sent"
  /\ \E response \in ResponsesOther :
       /\ Receive(response)
       /\ FetchReturn(unexpectedStatus(response))
  /\ fetchFrame

\* fetch() throws: handleFetchError, up to its backoff sleep
FetchError ==
  /\ fPc = "sent"
  /\ \E error \in Throws :
       /\ Receive(error)
       /\ IF isRetryable(error)
            THEN IF MayRetry(fRemaining)
                   THEN StartBackoff
                   ELSE FetchReturn(network(error, NotPositive(fRemaining)))
            ELSE FetchReturn(RawError(error))
  /\ fetchFrame

\* waitExponentialBackoff is over: the handler re-enters bitrixFetch with the same URL
BackoffDone ==
  /\ fPc = "backoff"
  /\ fTryes' = fTryes
  /\ fPause' = fPause
  /\ FetchEnter(fUrl, fParams)
  /\ UNCHANGED <<fAnswer, hFetchParams, fLog, fResult>>
  /\ fetchFrame

-----------------------------------------------------------------------------
\* no processing loop, no call of the limiter yet
InitIdle ==
  /\ now = StartTime
  /\ procPc = [d \in Domains |-> "none"]
  /\ wakeAt = [d \in Domains |-> -1]
  /\ resolved = {}
  /\ observes = 0
  /\ hEnq = [d \in Domains |-> 0]
  /\ hRelCount = [d \in Domains |-> 0]
  /\ hLastRel = [d \in Domains |-> 0]
  /\ hRelTime = [d \in Domains |-> -1]
  /\ hLastGap = [d \in Domains |-> -1]
  /\ hSlept = [d \in Domains |-> {}]
  /\ hKinds = [d \in Domains |-> {}]
  /\ hBreachAt = [d \in Domains |-> -1]
  /\ hRelAfterBreach = [d \in Domains |-> -1]

InitLimiter ==
  /\ portals = [d \in Domains |-> NoPortal]
  /\ InitIdle

InitCall ==
  /\ store = AuthRecord(Tenant, "T", "R")
  /\ callPc = [c \in Calls |-> "idle"]
  /\ callArg = [c \in Calls |-> [method |-> "", auth |-> NoHint]]
  /\ callAuth = [c \in Calls |-> NoAuth]
  /\ callNewAuth = [c \in Calls |-> NoAuth]
  /\ callResult = [c \in Calls |-> Pending]
  /\ hMethodSent = [c \in Calls |-> 0]
  /\ hRefreshSent = [c \in Calls |-> 0]
  /\ hAdmitted = [c \in Calls |-> 0]
  /\ hLimitAnswerAt = [c \in Calls |-> -1]
  /\ hReadMiss = [c \in Calls |-> FALSE]
  /\ hFault = [c \in Calls |-> "none"]
  /\ hAdmitDomain = [c \in Calls |-> ""]
  /\ hTrace = [c \in Calls |-> <<>>]

InitFetch ==
  /\ fPc = "idle"
  /\ fTryes = 0
  /\ fRemaining = Undefined
  /\ fSent = 0
  /\ fUrl = ""
  /\ fParams = NoParams
  /\ fPause = 0
  /\ fAnswer = NoAnswer
  /\ fSleepCount = 0
  /\ fLastDelay = -1
  /\ hFetchParams = NoParams
  /\ fLog = <<>>
  /\ fResult = NoResult

\* no processQueue activation of the "loops" workload, no restart pending
InitLoops ==
  /\ actPc = [a \in Acts |-> "none"]
  /\ actWake = [a \in Acts |-> -1]
  /\ restarts = 0
  /\ thrown = 0

\* the queue-capped variant has no portal yet
InitCapped ==
  /\ qPortal = NoPortal7
  /\ qTimers = {}
  /\ hCall = [id |-> 0, lenBefore |-> 0, rejected |-> FALSE, lenAfter |-> 0, armed |-> 0,
              exhausted |-> FALSE]
  /\ hOrderOk = TRUE

\* no refresh request is being prepared
InitNoRefresh ==
  /\ server_endpoint = ""
  /\ oauthEndpoint = ""

\* callDirect was not called
InitNoDirect ==
  /\ dRequest = [c \in Calls |-> NoRequest]
  /\ hReceived = [c \in Calls |-> NoReceived]

\* installApp was not called
InitNoInstall ==
  /\ iPc = "idle"
  /\ iRequest = NoPayload
  /\ iAuth = NoAuth
  /\ iPath = "none"
  /\ iResult = InstallPending
  /\ hWriterCalls = 0
  /\ hWriteOutcome = "none"

\* the logger was not called
InitNoLog ==
  /\ logEnabled = TRUE
  /\ logLevel = "error"
  /\ logData = NoData
  /\ logCalled = "none"
  /\ logOutput = NotEmitted

InitExt ==
  InitLoops /\ InitCapped /\ InitNoRefresh /\ InitNoDirect /\ InitNoInstall /\ InitNoLog

\* the limiter under a direct workload
Init ==
  /\ scenario \in {"free", "burst"}
  /\ config = [client_id |-> TRUE, client_secret |-> TRUE]
  /\ InitLimiter /\ InitCall /\ InitFetch /\ InitExt

Next ==
  \/ \E d \in Domains : Throttle(d)
  \/ \E d \in Domains : HandleResponse(d)
  \/ \E d \in Domains : LoopTest(d)
  \/ \E d \in Domains : WaitForMinInterval(d)
  \/ \E d \in Domains : CheckAndWaitForBucket(d)
  \/ \E d \in Domains : ExecuteNextTask(d)
  \/ \E d \in Domains : TimerFires(d)
  \/ Tick

Spec == Init /\ [][Next]_vars

\* the limiter under a workload of two tenants
InitPair ==
  /\ scenario = "pair"
  /\ config = [client_id |-> TRUE, client_secret |-> TRUE]
  /\ InitLimiter /\ InitCall /\ InitFetch /\ InitExt

SpecPair == InitPair /\ [][Next]_vars

\* the bucket levels tried, in thousandths of a request: a level that drains between two
\* clock steps, one request, a full bucket
DecayCounters == {(3 * Step * LEAK_RATE) \div 2, OneRequest, BucketCap}

\* the least idle period in ms after which a bucket at `counter` is empty
DrainTime(counter) == (counter + LEAK_RATE - 1) \div LEAK_RATE

\* the state of a tenant whose bucket was at `counter` at time t: after one release that
\* has leaked down to it, or after many releases
PortalAt(counter, t) ==
  [present |-> TRUE, counter |-> counter, lastUpdate |-> t, isBlocked |-> FALSE,
   blockUntil |-> 0,
   lastRequestTime |-> IF counter <= OneRequest THEN t - (OneRequest - counter) \div LEAK_RATE
                       ELSE t,
   queue |-> <<>>, isProcessingQueue |-> FALSE,
   totalRequests |-> IF counter <= OneRequest THEN 1 ELSE 2 * MAX_BUCKET]

\* two tenants in the same state: the bucket was updated just now ("decay"), or an idle
\* period of at least counter / LEAK_RATE seconds has passed since ("idle")
InitDecay ==
  /\ scenario \in {"decay", "idle"}
  /\ config = [client_id |-> TRUE, client_secret |-> TRUE]
  /\ \E counter \in DecayCounters, extra \in {0, Step} :
       LET idle == IF scenario = "idle" THEN DrainTime(counter) + extra ELSE 0
       IN portals = [d \in Domains |-> PortalAt(counter, StartTime - idle)]
  /\ InitIdle /\ InitCall /\ InitFetch /\ InitExt

NextDecay ==
  \/ \E d \in Domains : Throttle(d)
  \/ \E d \in Domains : UpdateCounter(d)
  \/ \E d \in Domains : LoopTest(d)
  \/ \E d \in Domains : WaitForMinInterval(d)
  \/ \E d \in Domains : CheckAndWaitForBucket(d)
  \/ \E d \in Domains : ExecuteNextTask(d)
  \/ \E d \in Domains : TimerFires(d)
  \/ Tick

SpecDecay == InitDecay /\ [][NextDecay]_vars

\* the limiter with a logger that may throw
InitThrowing ==
  /\ scenario = "loops"
  /\ config = [client_id |-> TRUE, client_secret |-> TRUE]
  /\ InitLimiter /\ InitCall /\ InitFetch /\ InitExt

NextLoops ==
  \/ LoopsThrottle
  \/ \E d \in Domains : HandleResponse(d)
  \/ RestartFires
  \/ \E a \in Acts : ActLoopTest(a)
  \/ \E a \in Acts : ActWaitForMinInterval(a)
  \/ \E a \in Acts : ActCheckAndWaitForBucket(a)
  \/ \E a \in Acts : ActExecuteNextTask(a)
  \/ \E a \in Acts : ActTimerFires(a)
  \/ Tick

SpecLoops == InitThrowing /\ [][NextLoops]_vars

\* the portal state after nine requests that were released one by one and far apart,
\* the last of them IdleTime ago
PortalAfterNine ==
  [present |-> TRUE, counter |-> OneRequest, lastUpdate |-> StartTime - IdleTime,
   isBlocked |-> FALSE, blockUntil |-> 0, lastRequestTime |-> StartTime - IdleTime,
   queue |-> <<>>, isProcessingQueue |-> FALSE, totalRequests |-> 9]

\* a limiter whose logger may throw and whose tenant has been served nine times
InitTenth ==
  /\ scenario = "loops"
  /\ config = [client_id |-> TRUE, client_secret |-> TRUE]
  /\ portals = [d \in Domains |-> IF d = Tenant THEN PortalAfterNine ELSE NoPortal]
  /\ InitIdle /\ InitCall /\ InitFetch /\ InitExt

\* the event loop runs every continuation that is ready and every timer that is due, and
\* time advances; throttle and handleResponse calls are up to the callers
LoopsFairness ==
  /\ WF_vars(Tick)
  /\ WF_vars(RestartFires)
  /\ WF_vars(\E a \in Acts : ActLoopTest(a))
  /\ WF_vars(\E a \in Acts : ActWaitForMinInterval(a))
  /\ WF_vars(\E a \in Acts : ActCheckAndWaitForBucket(a))
  /\ WF_vars(\E a \in Acts : ActExecuteNextTask(a))
  /\ WF_vars(\E a \in Acts : ActTimerFires(a))

SpecLoopsFair == InitTenth /\ [][NextLoops]_vars /\ LoopsFairness

\* the queue-capped variant of the limiter under a flood of throttle calls
InitFlood ==
  /\ scenario = "capped"
  /\ config = [client_id |-> TRUE, client_secret |-> TRUE]
  /\ InitLimiter /\ InitCall /\ InitFetch /\ InitExt

NextCapped ==
  \/ EnqueueRequest7
  \/ HandleResponse7
  \/ TimerFires7
  \/ Tick

SpecCapped == InitFlood /\ [][NextCapped]_vars

\* #prepareOAuthRequest for each of the server endpoints
InitOAuth ==
  /\ scenario = "oauth"
  /\ config = [client_id |-> TRUE, client_secret |-> TRUE]
  /\ InitLimiter /\ InitCall /\ InitFetch /\ InitLoops /\ InitCapped /\ InitNoDirect
  /\ InitNoInstall /\ InitNoLog
  /\ server_endpoint \in ServerEndpoints
  /\ oauthEndpoint = ""

NextOAuth == PrepareOAuthRequest

SpecOAuth == InitOAuth /\ [][NextOAuth]_vars

\* Bitrix24API.callDirect with each kind of directAuth
InitDirect ==
  /\ scenario = "direct"
  /\ config \in [client_id : BOOLEAN, client_secret : BOOLEAN]
  /\ InitLimiter /\ InitCall /\ InitFetch /\ InitExt

NextDirect ==
  \/ \E c \in Calls : DirectStart(c)
  \/ \E c \in Calls : DirectResponse(c)

SpecDirect == InitDirect /\ [][NextDirect]_vars

\* Bitrix24API.installApp with each kind of payload
InitInstall ==
  /\ scenario = "install"
  /\ config = [client_id |-> TRUE, client_secret |-> TRUE]
  /\ InitLimiter /\ InitCall /\ InitFetch /\ InitExt

NextInstall ==
  \/ InstallStart
  \/ InstallWriteReturns

SpecInstall == InitInstall /\ [][NextInstall]_vars

\* a Logger with each configuration, about to log each payload
InitLog ==
  /\ scenario = "log"
  /\ config = [client_id |-> TRUE, client_secret |-> TRUE]
  /\ InitLimiter /\ InitCall /\ InitFetch
  /\ InitLoops /\ InitCapped /\ InitNoRefresh /\ InitNoDirect /\ InitNoInstall
  /\ logEnabled \in BOOLEAN
  /\ logLevel \in {"debug", "warn"}
  /\ logData \in LogPayloads
  /\ logCalled = "none"
  /\ logOutput = NotEmitted

NextLog == LoggerLog

SpecLog == InitLog /\ [][NextLog]_vars

\* Bitrix24API.call over the limiter
InitCalls ==
  /\ scenario = "call"
  /\ config \in [client_id : BOOLEAN, client_secret : BOOLEAN]
  /\ InitLimiter /\ InitCall /\ InitFetch /\ InitExt

NextCall ==
  \/ \E c \in Calls : CallStart(c)
  \/ \E c \in Calls : ReadAuthReturns(c)
  \/ \E c \in Calls : AfterThrottle(c)
  \/ \E c \in Calls : MethodResponse(c)
  \/ \E c \in Calls : RefreshResponse(c)
  \/ \E c \in Calls : WriteAuthReturns(c)
  \/ \E d \in Domains : LoopTest(d)
  \/ \E d \in Domains : WaitForMinInterval(d)
  \/ \E d \in Domains : CheckAndWaitForBucket(d)
  \/ \E d \in Domains : ExecuteNextTask(d)
  \/ \E d \in Domains : TimerFires(d)
  \/ Tick

SpecCall == InitCalls /\ [][NextCall]_vars

\* every way to config.writeAuth: Bitrix24API.call over the limiter, and installApp
InitStore == InitCalls \/ InitInstall

NextStore == NextCall \/ NextInstall

SpecStore == InitStore /\ [][NextStore]_vars

\* one logical request of the transport
InitTransport ==
  /\ scenario = "fetch"
  /\ config = [client_id |-> TRUE, client_secret |-> TRUE]
  /\ InitLimiter /\ InitCall /\ InitFetch /\ InitExt

NextFetch ==
  \/ FetchCall
  \/ Answer2xx
  \/ Answer3xx
  \/ Answer4xx
  \/ Answer5xx
  \/ AnswerOther
  \/ FetchError
  \/ BackoffDone

SpecFetch == InitTransport /\ [][NextFetch]_vars

\* one logical request of the transport with a long attempt budget or with none given
InitBudget ==
  /\ scenario = "budget"
  /\ config = [client_id |-> TRUE, client_secret |-> TRUE]
  /\ InitLimiter /\ InitCall /\ InitFetch /\ InitExt

SpecBudget == InitBudget /\ [][NextFetch]_vars

-----------------------------------------------------------------------------
(* Claims about the limiter, checked under Spec *)

C3_CounterRange ==
  \A d \in Domains :
    portals[d].present =>
      portals[d].counter >= 0 /\ portals[d].counter <= BucketCap + OneRequest

\* the last admission crossed MAX_BUCKET
C3_Witness == \E d \in Domains : portals[d].counter > BucketCap

\* C4: after a limit breach recorded at time t no admission of the tenant is released
\* before t + MAX_BLOCK_TIME.
C4_BlockHolds ==
  \A d \in Domains :
    hRelAfterBreach[d] = -1 \/ hRelAfterBreach[d] >= hBreachAt[d] + MAX_BLOCK_TIME

-----------------------------------------------------------------------------
(* Claims about two tenants of the limiter, checked under SpecPair *)

\* C19: a handleResponse call for a limit breach (error QUERY_LIMIT_EXCEEDED, a description
\* containing 'limit exceeded', or status 503) sets the tenant's block flag, sets blockUntil
\* to now + MAX_BLOCK_TIME, leaves a counter of at least 0.9 * MAX_BUCKET and keeps the
\* queue; for any other response the limiter is unchanged; and in both cases the portals
\* of every other tenant and the processing loops are unchanged.
C19_HandleResponseFrame ==
  [][\A d \in Domains, result \in Results :
       (procPc' = procPc /\ hEnq' = hEnq /\ now' = now /\ Observe(d, result)) =>
         LET breach == \/ result.error = "QUERY_LIMIT_EXCEEDED"
                       \/ result.descrHasLimit
                       \/ result.status = 503
         IN /\ IF breach
                 THEN /\ portals'[d].isBlocked
                      /\ portals'[d].blockUntil = now + MAX_BLOCK_TIME
                      /\ 10 * portals'[d].counter >= 9 * MAX_BUCKET * MsPerSecond
                      /\ portals'[d].queue = portals[d].queue
                 ELSE portals'[d] = portals[d]
            /\ \A e \in Domains \ {d} : portals'[e] = portals[e]
            /\ UNCHANGED <<procPc, wakeAt>>]_vars

\* a breach was just recorded for a tenant with a pending admission, while the other
\* tenant has a bucket in use and a pending admission of its own
C19_Witness ==
  \E d \in Domains : \E e \in Domains \ {d} :
    /\ hBreachAt[d] = now
    /\ portals[d].isBlocked
    /\ portals[d].blockUntil = now + MAX_BLOCK_TIME
    /\ Len(portals[d].queue) >= 1
    /\ portals[e].counter > 0
    /\ Len(portals[e].queue) >= 1

\* a step of throttle, of handleResponse or of the processing loop of tenant a
ActivityOf(a) ==
  \/ Throttle(a) \/ HandleResponse(a) \/ LoopTest(a) \/ WaitForMinInterval(a)
  \/ CheckAndWaitForBucket(a) \/ ExecuteNextTask(a) \/ TimerFires(a)

\* a reason of the tenant's own for its loop to sleep: a block still running, a full bucket,
\* or a release less than MIN_REQUEST_INTERVAL ago
OwnReasonToSleep(d) ==
  \/ portals[d].isBlocked /\ portals[d].blockUntil > now
  \/ portals[d].counter >= MAX_BUCKET * MsPerSecond
  \/ portals[d].lastRequestTime > 0 /\ now - portals[d].lastRequestTime < MIN_REQUEST_INTERVAL

\* C20: tenants do not affect each other. (1) When the loop of a tenant sleeps at the very
\* instant at which its oldest pending admission was enqueued, the tenant itself is blocked,
\* at MAX_BUCKET, or released its last admission less than MIN_REQUEST_INTERVAL ago: an
\* admission enqueued with none pending, no block, room in the bucket and an old enough last
\* release is released without a sleep, whatever the state of the other tenant. (2) A step
\* of throttle, handleResponse or the processing loop of one tenant leaves counter, block
\* flag, block deadline and queue of every other tenant unchanged.
C20_TenantsIndependent ==
  /\ [](\A d \in Domains :
          (Sleeping(d) /\ Len(portals[d].queue) >= 1 /\ portals[d].queue[1].addedAt = now)
            => OwnReasonToSleep(d))
  /\ [][\A a \in Domains : \A d \in Domains \ {a} :
          ActivityOf(a) =>
            /\ portals'[d].counter = portals[d].counter
            /\ portals'[d].isBlocked = portals[d].isBlocked
            /\ portals'[d].blockUntil = portals[d].blockUntil
            /\ portals'[d].queue = portals[d].queue]_vars

\* C22: for one tenant at most one processing loop is active at any time: no two
\* processQueue activations are inside the release loop together, whatever the order of
\* throttle calls, timers and restarts, also after an activation ended by an exception.
C22_OneLoop == Cardinality({a \in Acts : actPc[a] # "none"}) <= 1

\* C24: when the queue of a tenant holds the configured maximum of pending admissions, a
\* new admission fails at once and is not enqueued, and only then: the queue never holds
\* more than the maximum; and the queued admissions are released in the order in which
\* they were enqueued.
C24_QueueCap ==
  /\ Len(qPortal.queue) <= MAX_QUEUE_SIZE
  /\ hCall.id > 0 =>
       /\ hCall.rejected <=> hCall.lenBefore >= MAX_QUEUE_SIZE
       /\ hCall.rejected =>
            /\ hCall.lenAfter = hCall.lenBefore
            /\ \A i \in 1 .. Len(qPortal.queue) : qPortal.queue[i].id # hCall.id
       /\ ~hCall.rejected => hCall.lenAfter = hCall.lenBefore + 1
  /\ hOrderOk

\* an admission was refused at a full queue, and queued admissions were released since
C24_Witness ==
  /\ hCall.rejected
  /\ hCall.lenBefore = MAX_QUEUE_SIZE
  /\ hRelCount[Tenant] > 0
  /\ Len(qPortal.queue) < MAX_QUEUE_SIZE
  /\ now > StartTime

\* C25: cleanupPortals removes the limiter state of a tenant only if its queue is empty and
\* its last released admission is more than 30 minutes old; a step that removes some
\* tenant's state removes none that has pending admissions or an active processing loop, and
\* leaves the queue, the loop and the timer of every tenant with pending admissions unchanged.
C25_SweepRemovesIdle ==
  [][\A d \in Domains :
       (portals[d].present /\ ~portals'[d].present) =>
         /\ Len(portals[d].queue) = 0
         /\ hRelTime[d] >= 0
         /\ now - hRelTime[d] > InactiveThreshold
         /\ procPc'[d] = "none"
         /\ \A e \in Domains :
              Len(portals[e].queue) > 0 =>
                /\ portals'[e] = portals[e]
                /\ procPc'[e] = procPc[e]
                /\ wakeAt'[e] = wakeAt[e]]_vars

-----------------------------------------------------------------------------
(* Claims about Bitrix24API.call, checked under SpecCall *)

DomainOf(c) == callAuth[c].domain

\* C5: when call has returned a transport response that is a limit breach
\* (QUERY_LIMIT_EXCEEDED or HTTP 503), the limiter has recorded a breach for the
\* domain of the call's credential record, no earlier than the response.
C5_Observed ==
  \A c \in Calls :
    (callPc[c] = "done" /\ hLimitAnswerAt[c] >= 0) =>
      hBreachAt[DomainOf(c)] >= hLimitAnswerAt[c]

\* C6: one originating call sends at most one refresh request and at most two method
\* requests (the original and one re-issue).
C6_OneRefresh == \A c \in Calls : hRefreshSent[c] <= 1 /\ hMethodSent[c] <= 2

\* C7: every request a call has sent, method or refresh, was preceded by a limiter
\* admission of its own.
C7_RefreshAdmitted == \A c \in Calls : hMethodSent[c] + hRefreshSent[c] <= hAdmitted[c]

\* C8: a call in which validation failed or the store raised an exception settles with a
\* module_error envelope, never with a rejection.
C8_NeverRejects ==
  \A c \in Calls :
    (callPc[c] = "done" /\ hFault[c] # "none") =>
      callResult[c].kind = "envelope" /\ callResult[c].error = "module_error"

\* C9: a call whose store read gave nothing or an invalid record returns an envelope of
\* kind no_install_app.
C9_NoInstallKind ==
  \A c \in Calls :
    (callPc[c] = "done" /\ hReadMiss[c]) =>
      callResult[c].kind = "envelope" /\ callResult[c].error = "no_install_app"

Count(seq, event) == Cardinality({i \in 1 .. Len(seq) : seq[i] = event})

\* C12: when the first refresh of a call is answered with a new access token and a new
\* refresh token only, config.writeAuth is invoked with a record holding both tokens and
\* the tenant's domain; once that write has returned true and the call is over, there was
\* one write, the method was sent twice and the call returned the second answer.
C12_RefreshWrites ==
  \A c \in Calls :
    (Len(hTrace[c]) >= 4 /\ hTrace[c][4] = "refreshTokens") =>
      /\ Len(hTrace[c]) >= 5
      /\ hTrace[c][5] = "write"
      /\ callNewAuth[c].access_token = "T2"
      /\ callNewAuth[c].refresh_token = "R2"
      /\ callNewAuth[c].domain = Tenant
      /\ (callPc[c] = "done" /\ Len(hTrace[c]) >= 6 /\ hTrace[c][6] = "writeTrue"
            /\ Count(hTrace[c], "refresh") = 1) =>
           /\ Count(hTrace[c], "write") = 1
           /\ Count(hTrace[c], "method") = 2
           /\ callResult[c].kind = "envelope"

\* C13: an error envelope from the refresh ends the call with that envelope: nothing
\* follows it in the history of the call, neither a store write nor a method request.
C13_RefreshError ==
  \A c \in Calls : \A i \in 1 .. Len(hTrace[c]) :
    hTrace[c][i] = "refreshError" =>
      /\ i = Len(hTrace[c])
      /\ callPc[c] = "done"
      /\ callResult[c].kind = "envelope"
      /\ callResult[c].error = "invalid_grant"

\* a call ended by the error answer to its refresh, after one method request and no write
C13_Witness ==
  \E c \in Calls :
    /\ callPc[c] = "done"
    /\ hTrace[c] = <<"method", "expired", "refresh", "refreshError">>
    /\ callResult[c].error = "invalid_grant"

\* C14: every method request of a call follows an admission released to that call by
\* the limiter under the domain of the record read from the store; a call waiting in
\* throttle is queued under that domain; and the releases of the limiter are as many as
\* the method requests sent plus the admissions whose continuation is still due.
C14_MethodAdmitted ==
  /\ \A c \in Calls :
       /\ hMethodSent[c] = hAdmitted[c]
       /\ hAdmitted[c] > 0 => hAdmitDomain[c] = DomainOf(c)
       /\ callPc[c] = "throttled" =>
            \/ <<c, DomainOf(c)>> \in resolved
            \/ \E i \in 1 .. Len(portals[DomainOf(c)].queue) :
                 portals[DomainOf(c)].queue[i].owner = c
  /\ SumOver(hRelCount, Domains) = SumOver(hMethodSent, Calls) + Cardinality(resolved)

\* one call has sent its method twice (original and re-issue), each time after an
\* admission under the record's domain; another, whose hint names the other tenant,
\* waits in the queue of the record's domain
C14_Witness ==
  \E c1, c2 \in Calls :
    /\ hMethodSent[c1] = 2
    /\ hAdmitDomain[c1] = Tenant
    /\ callPc[c2] = "throttled"
    /\ callArg[c2].auth.domain = OtherTenant
    /\ \E i \in 1 .. Len(portals[Tenant].queue) : portals[Tenant].queue[i].owner = c2

\* C15: in the history of a call a refresh request directly follows an expired_token
\* answer, and a method request other than the first directly follows a refresh answer
\* and a store write that returned true.
C15_RefreshOrder ==
  \A c \in Calls : \A i \in 1 .. Len(hTrace[c]) :
    /\ hTrace[c][i] = "refresh" => i > 1 /\ hTrace[c][i - 1] = "expired"
    /\ (hTrace[c][i] = "method" /\ i > 1) =>
         /\ i > 4
         /\ hTrace[c][i - 1] = "writeTrue"
         /\ hTrace[c][i - 2] = "write"
         /\ hTrace[c][i - 3] \in {"refreshRecord", "refreshTokens"}
         /\ hTrace[c][i - 4] = "refresh"

\* a call that re-issued its method after refresh and write, while another call ended on
\* a write that returned false
C15_Witness ==
  \E c1, c2 \in Calls :
    /\ Len(hTrace[c1]) >= 7
    /\ hTrace[c1][7] = "method"
    /\ Len(hTrace[c2]) > 0
    /\ hTrace[c2][Len(hTrace[c2])] = "writeFalse"

\* C23: call touches the credential store, the limiter and the network only after validation
\* passed: a call whose method is empty, whose hint is not an object carrying a domain, or
\* made with client id or client secret not configured, has ended without a store read, an
\* admission enqueued or a request sent.
C23_ValidatedFirst ==
  \A c \in Calls :
    ( /\ callPc[c] # "idle"
      /\ \/ callArg[c].method = ""
         \/ ~callArg[c].auth.isObject
         \/ callArg[c].auth.domain = ""
         \/ ~config.client_id
         \/ ~config.client_secret )
      => /\ callPc[c] = "done"
         /\ callAuth[c] = NoAuth /\ ~hReadMiss[c] /\ hFault[c] # "store"
         /\ \A d \in Domains :
              \A i \in 1 .. Len(portals[d].queue) : portals[d].queue[i].owner # c
         /\ hAdmitted[c] = 0
         /\ hMethodSent[c] = 0 /\ hRefreshSent[c] = 0

\* C21: for one tenant at most one admitted request is in progress: two calls admitted
\* under the same domain never both have their method request at the transport.
C21_OneInProgress ==
  \A c1, c2 \in Calls :
    (c1 # c2 /\ callPc[c1] = "inflight" /\ callPc[c2] = "inflight")
      => DomainOf(c1) # DomainOf(c2)

-----------------------------------------------------------------------------
(* Claims about callDirect, checked under SpecDirect *)

\* C27: callDirect uses only the credentials passed to it: the request it sends is made
\* of the client endpoint and the access token of its directAuth argument; whatever the
\* response, expired_token included, it reads no record from the credential store, writes
\* none and sends no refresh request; and the envelope it received, expired_token
\* included, is what the caller gets.
C27_DirectOnly ==
  /\ store = AuthRecord(Tenant, "T", "R")
  /\ \A c \in Calls :
       /\ callPc[c] \notin {"readAuth", "refreshInflight", "writeAuth"}
       /\ callAuth[c] = NoAuth /\ callNewAuth[c] = NoAuth
       /\ hRefreshSent[c] = 0
       /\ Count(hTrace[c], "refresh") = 0 /\ Count(hTrace[c], "write") = 0
       /\ dRequest[c] # NoRequest =>
            /\ dRequest[c].auth = callArg[c].auth.access_token
            /\ dRequest[c].url = Str(callArg[c].auth.client_endpoint) \o callArg[c].method \o ".json"
       /\ hReceived[c] # NoReceived =>
            /\ callPc[c] = "done"
            /\ callResult[c].kind = "envelope"
            /\ callResult[c].error = hReceived[c].error
            /\ callResult[c].status = hReceived[c].status

\* a callDirect whose credentials differ from the stored ones got expired_token and
\* returned it
C27_Witness ==
  \E c \in Calls :
    /\ callPc[c] = "done"
    /\ hReceived[c].error = "expired_token"
    /\ callResult[c].error = "expired_token"
    /\ dRequest[c].auth = "D" /\ dRequest[c].auth # store.access_token
    /\ hMethodSent[c] = 1

-----------------------------------------------------------------------------
(* Claims about installApp, checked under SpecInstall *)

\* the payload has neither the headless shape (event = ONAPPINSTALL with a nested auth
\* record) nor the UI shape (PLACEMENT = DEFAULT)
NeitherShape(request) ==
  /\ ~(request.event = "ONAPPINSTALL" /\ request.auth # NoAuth)
  /\ request.PLACEMENT # "DEFAULT"

\* C28 as stated: when the install payload (an object) matches neither the headless shape
\* nor the UI shape, installApp returns an envelope whose error is install_error and the
\* credential writer is not invoked.
C28_NeitherIsError ==
  iPc = "done" /\ iRequest.type = "object" /\ NeitherShape(iRequest) =>
    /\ iResult.kind = "resolved"
    /\ iResult.error = "install_error"
    /\ hWriterCalls = 0

\* C28 as amended: when the install payload is an object that matches neither the
\* headless shape nor the UI shape, installApp returns a result that has no error: its
\* rest_only is true, its install is false and its description says that nothing was
\* installed; the credential writer is not invoked and the store is left as it was.
C28_NotInstalled ==
  iPc = "done" /\ iRequest.type = "object" /\ NeitherShape(iRequest) =>
    /\ iResult.kind = "resolved"
    /\ iResult.error = ""
    /\ iResult.rest_only /\ ~iResult.install /\ iResult.description
    /\ hWriterCalls = 0
    /\ store = AuthRecord(Tenant, "T", "R")

\* installApp answered a payload whose event is ONAPPINSTALL but which has no nested auth
\* record and no PLACEMENT
C28_Witness ==
  /\ iPc = "done"
  /\ iRequest.type = "object"
  /\ iRequest.event = "ONAPPINSTALL" /\ iRequest.auth = NoAuth /\ iRequest.PLACEMENT = ""
  /\ iResult.kind = "resolved" /\ iResult.description

\* C29: installApp never throws and never rejects: for a missing or non-object payload,
\* a UI payload lacking AUTH_ID or DOMAIN, or a credential writer that throws, it
\* resolves to an envelope whose error is install_error, and in each of these cases
\* nothing is written to the store.
C29_NeverRejects ==
  /\ iResult.kind # "rejected"
  /\ iPc = "done" /\ (\/ iRequest.type # "object"
                      \/ /\ iPath = "ui"
                         /\ iRequest.AUTH_ID = "" \/ iRequest.DOMAIN_ = ""
                      \/ hWriteOutcome \in {"throwsError", "throwsValue"}) =>
       /\ iResult.kind = "resolved"
       /\ iResult.error = "install_error"
       /\ store = AuthRecord(Tenant, "T", "R")

-----------------------------------------------------------------------------
(* Claims about the logger, checked under SpecLog *)

\* the field names whose values must not be emitted
ScrubList ==
  {"auth", "access_token", "refresh_token", "client_secret", "token", "password", "key",
   "secret", "code", "Authorization"}

\* does `out`, the output made of `value`, show a field of the scrub list with something
\* else than the placeholder, at any depth
RECURSIVE Leaks(_, _)
Leaks(value, out) ==
  /\ value.t \in {"object", "error"}
  /\ out.t = "object"
  /\ \E key \in DOMAIN value.f \cap DOMAIN out.f :
       IF key \in ScrubList THEN out.f[key] # Redacted
       ELSE Leaks(value.f[key], out.f[key])

\* C30: for every log record, whatever its level and whether or not its payload carries
\* an Error value, the emitted output has the placeholder instead of the value of every
\* field named auth, access_token, refresh_token, client_secret, token, password, key,
\* secret, code or Authorization, at every nesting depth of the payload including its top
\* level.
C30_Redacted == logOutput.emitted => ~Leaks(logData, logOutput.data)

-----------------------------------------------------------------------------
(* Claims about the OAuth endpoint, checked under SpecOAuth *)

\* the endpoint made from a server endpoint: "/rest" stripped, "/oauth/token/" appended
Derived(url) == SubSeq(url, 1, Len(url) - Len("/rest")) \o "/oauth/token/"

\* C26 as stated: the refresh request goes to the endpoint derived from server_endpoint
\* only when server_endpoint itself matches ^https://oauth\.bitrix\d*\.(tech|info)/rest$;
\* for every other value (a trailing slash, another host, http, an extra path) and for an
\* absent one it goes to the default endpoint.
C26_ExactMatchOnly ==
  oauthEndpoint # "" =>
    oauthEndpoint = IF MatchesBitrixOAuth(server_endpoint, "/rest")
                      THEN Derived(server_endpoint)
                      ELSE OAUTH_TOKEN_ENDPOINT

\* C26 as amended: the refresh request goes to the derived endpoint exactly when
\* server_endpoint, with one trailing slash removed if it ends in one, matches the
\* pattern; for every other value and for an absent one it goes to the default endpoint.
C26_EndpointDerivation ==
  oauthEndpoint # "" =>
    LET n == Len(server_endpoint)
        stripped == IF n > 0 /\ SubSeq(server_endpoint, n, n) = "/"
                      THEN SubSeq(server_endpoint, 1, n - 1)
                      ELSE server_endpoint
    IN oauthEndpoint = IF MatchesBitrixOAuth(stripped, "/rest")
                         THEN Derived(stripped)
                         ELSE OAUTH_TOKEN_ENDPOINT

\* a refresh was prepared for a server endpoint with a trailing slash and goes to a
\* derived endpoint that is not the default one
C26_Witness ==
  /\ oauthEndpoint # ""
  /\ oauthEndpoint # OAUTH_TOKEN_ENDPOINT
  /\ EndsWith(server_endpoint, "/rest/")

-----------------------------------------------------------------------------
(* Claims about bitrixFetch, checked under SpecFetch *)

\* C10: one logical fetch with budget tryes sends at most tryes HTTP requests, whatever
\* the answers; a retry is pending only while the budget is not used up.
C10_AttemptBudget ==
  /\ fSent <= fTryes
  /\ fPc = "backoff" => fSent < fTryes

\* a fetch that used its whole budget of at least three requests on a redirect, a 5xx
\* retry and a network retry, and returned
C10_Witness ==
  /\ fPc = "done"
  /\ fTryes >= 3
  /\ fSent = fTryes
  /\ \E i, j, k \in 1 .. Len(fLog) : fLog[i] = "3xx" /\ fLog[j] = "5xx" /\ fLog[k] = "neterr"

Last(seq) == seq[Len(seq)]

\* a delay of about ms: ms plus a jitter of at most 30 %
About(ms) == ms .. ms + (3 * ms) \div 10

\* the backoff sleeps the answers so far call for: one per 5xx or retryable network
\* error that was answered while the budget was not used up
SleepsDue ==
  IF fPause = 0 THEN 0
  ELSE Cardinality({i \in 1 .. Len(fLog) : fLog[i] \in {"5xx", "neterr"} /\ i < fTryes})

\* C11: with tryes = 3 and pause = BasePause, after three 5xx answers the transport has
\* slept three times, the third time about 4 * BasePause ms, and has not returned: a
\* fourth request follows, and a 2xx answer to it is returned as success.
C11_RetryOn500 ==
  (fTryes = 3 /\ fPause = BasePause /\ Len(fLog) >= 3
     /\ \A i \in 1 .. 3 : fLog[i] = "5xx") =>
    /\ fSleepCount = 3
    /\ fLastDelay \in About(4 * BasePause)
    /\ IF Len(fLog) = 3 THEN fPc \in {"backoff", "sent"}
       ELSE fLog[4] = "2xx" => fPc = "done" /\ fResult.kind = "body"

C17_Redirect ==
  (Len(fLog) > 0 /\ Last(fLog) = "3xx") =>
    IF ~fAnswer.location \/ Len(fLog) >= fTryes
      THEN fPc = "done" /\ fResult.kind = "redirect_error" /\ fSent = Len(fLog)
      ELSE /\ fPc = "sent"
           /\ fSent = Len(fLog) + 1
           /\ fUrl = "location"
           /\ fParams = hFetchParams

\* a POST redirected for the second time, the request to the Location URL in flight
C17_Witness ==
  /\ Len(fLog) >= 2
  /\ fLog[Len(fLog) - 1] = "3xx"
  /\ Last(fLog) = "3xx"
  /\ fPc = "sent"
  /\ fUrl = "location"
  /\ fParams.method = "POST"

\* C18: a retryable network error answered while the budget is not used up leads to a
\* backoff and one more request; answered on the last attempt it ends the fetch with
\* network_error and retries_exhausted = true; a non-retryable error ends the fetch at
\* once with that error.  No other sleep is made (with pause = 0 the backoff is empty).
C18_NetworkError ==
  /\ fSleepCount = SleepsDue
  /\ (Len(fLog) > 0 /\ Last(fLog) = "neterr") =>
       IF Len(fLog) < fTryes
         THEN \/ fPc = "backoff" /\ fSent = Len(fLog)
              \/ fPc = "sent" /\ fSent = Len(fLog) + 1
         ELSE /\ fPc = "done"
              /\ fSent = Len(fLog)
              /\ fResult.kind = "network_error"
              /\ fResult.retries_exhausted
  /\ (Len(fLog) > 0 /\ Last(fLog) = "fatal") =>
       fPc = "done" /\ fSent = Len(fLog) /\ fResult.kind = "thrown"

\* three retryable network errors in a row with pause set: two sleeps, then network_error
C18_Witness ==
  /\ fPc = "done"
  /\ fPause > 0
  /\ fTryes = 3
  /\ fLog = <<"neterr", "neterr", "neterr">>
  /\ fSleepCount = 2
  /\ fResult.kind = "network_error"
  /\ fResult.retries_exhausted

-----------------------------------------------------------------------------
(* Claims about the attempt budget of bitrixFetch, checked under SpecBudget *)

RECURSIVE AtLeastTimesPow2(_, _, _)
\* delay >= base * 2^n
AtLeastTimesPow2(delay, base, n) ==
  IF n = 0 THEN delay >= base ELSE AtLeastTimesPow2(delay \div 2, base, n - 1)

RECURSIVE Pow2(_)
Pow2(n) == IF n = 0 THEN 1 ELSE 2 * Pow2(n - 1)

\* base * 2^n <= delay < 1.3 * base * 2^n
InBackoffRange(delay, base, n) ==
  /\ AtLeastTimesPow2(delay, base, n)
  /\ LET pause == base * Pow2(n)
     IN delay - pause <= 3 * (pause \div 10) + (3 * (pause % 10) - 1) \div 10

\* C31: the sleep before attempt n (0-based, n >= 1) of one logical request lies in
\* [basePause * 2^n, 1.3 * basePause * 2^n) ms, so delays never decrease from one retry to
\* the next; this holds for every n below the attempt budget, budgets larger than 31
\* included, whether the earlier attempts were consumed by 5xx answers, network errors or
\* redirects.
C31_BackoffRange ==
  /\ [](fPc = "backoff" /\ fPause # 0
          => InBackoffRange(fLastDelay, fPause, fTryes - fRemaining))
  /\ [][fSleepCount' > fSleepCount /\ fSleepCount > 0 => fLastDelay' >= fLastDelay]_vars

\* C38: when options.tryes is omitted, bitrixFetch sends at most 5 HTTP requests, the
\* documented default, and then returns, also against a server that answers every request
\* with a 3xx carrying a Location header or with a 5xx.
C38_DefaultBudget ==
  fTryes = Undefined =>
    /\ fSent <= 5
    /\ fSent = 5 => fPc \in {"sent", "done"}

-----------------------------------------------------------------------------
(* Claims about the processing loop and its restarts, checked under SpecLoopsFair *)

\* the clock of the workload has reached its last instant
TimeIsUp == now = StartTime + LoopSteps * Step

\* C32: every admission enqueued by throttle is eventually released, provided time
\* advances and limit breaches are observed only finitely often: no admission is ever left
\* in the queue of a tenant with no processing loop active or scheduled, also when a
\* throttle call races with the exit of the loop.  (An admission still queued when the
\* clock of the workload stops is not held against the claim.)
C32_EventuallyReleased ==
  /\ [](Len(portals[Tenant].queue) > 0
          => restarts > 0 \/ \E a \in Acts : actPc[a] # "none")
  /\ \A k \in 1 .. LoopCalls :
       (hEnq[Tenant] >= k) ~>
         (hRelCount[Tenant] >= k \/ (TimeIsUp /\ Len(portals[Tenant].queue) > 0))

-----------------------------------------------------------------------------
(* Claims about concurrent calls and the credential store, checked under SpecCall *)

\* the call is inside #refreshAuth: its refresh request is in flight or its write is
\* pending; callAuth is the record whose refresh token it presented
InRefresh(c) == callPc[c] \in {"refreshInflight", "writeAuth"}

\* C33: when two concurrent calls of one tenant both receive expired_token, at most one
\* refresh request is sent with the stored refresh token: the same refresh token is never
\* presented twice, and the store is written at most once for that expiry.  Here: no two
\* calls are inside #refreshAuth together for the same refresh token.
C33_SingleRefresh ==
  \A c1, c2 \in Calls :
    (c1 # c2 /\ InRefresh(c1) /\ InRefresh(c2)) =>
      callAuth[c1].refresh_token # callAuth[c2].refresh_token

-----------------------------------------------------------------------------
(* Claims about the records written to the store, checked under SpecStore *)

\* C34: every record the core passes to the store's write, from install or from refresh,
\* is valid; on the refresh path the written record's domain is the domain of the tenant
\* whose call triggered the refresh, even if the refresh answer names another domain; and
\* a call that never received expired_token never invokes write.
C34_WrittenRecords ==
  /\ iPc = "writing" => validateAuth(iAuth)
  /\ \A c \in Calls :
       /\ callPc[c] = "writeAuth" =>
            /\ validateAuth(callNewAuth[c])
            /\ callNewAuth[c].domain = callAuth[c].domain
       /\ Count(hTrace[c], "write") > 0 => Count(hTrace[c], "expired") > 0

\* a call answered with expired_token is about to write the refreshed record
C34_Witness ==
  \E c \in Calls :
    /\ callPc[c] = "writeAuth"
    /\ Count(hTrace[c], "expired") > 0
    /\ callNewAuth[c].refresh_token = "R2"

-----------------------------------------------------------------------------
(* Claims about a call without a valid record, checked under SpecCall *)

\* the call has handed its record to throttle and has not returned yet
Proceeding(c) == callPc[c] \in {"throttled", "inflight", "refreshInflight", "writeAuth"}

\* C35: when the store yields no valid record for a call, the call has no side effect: no
\* limiter state is created or changed for any domain, no admission is enqueued, no HTTP
\* request is sent and the store's write is not invoked.  A call goes on past the read
\* only with a valid record, and the step in which a read ends with no valid record
\* changes nothing but the call's own result.
C35_MissHasNoEffect ==
  /\ [](\A c \in Calls : Proceeding(c) => validateAuth(callAuth[c]))
  /\ [][\A c \in Calls :
         (callPc[c] = "readAuth" /\ hReadMiss'[c]) =>
           /\ callPc'[c] = "done"
           /\ UNCHANGED <<portals, procPc, wakeAt, resolved, hEnq, store, hMethodSent,
                          hRefreshSent, hAdmitted, hTrace, callNewAuth>>]_vars

\* a call ended by a read with no valid record while the tenant has limiter state
C35_Witness ==
  \E c \in Calls :
    /\ callPc[c] = "done"
    /\ hReadMiss[c]
    /\ hTrace[c] = <<>>
    /\ portals[Tenant].present
    /\ hEnq[Tenant] = 1

-----------------------------------------------------------------------------
(* Claims about the sweep and the hard block, checked under SpecPair *)

\* C36: a sweep never removes a tenant state whose hard block has not yet expired: after
\* handleResponse blocked a tenant at time t, a cleanupPortals run before
\* t + MAX_BLOCK_TIME leaves the block in force for admissions enqueued afterwards, also
\* for a tenant whose state was created by handleResponse and that has never released an
\* admission (lastRequestTime = 0).  No step ends a block whose deadline is ahead.
C36_SweepKeepsBlock ==
  [][\A d \in Domains :
       (portals[d].present /\ portals[d].isBlocked /\ portals[d].blockUntil > now) =>
         /\ portals'[d].present
         /\ portals'[d].isBlocked
         /\ portals'[d].blockUntil >= portals[d].blockUntil]_vars

-----------------------------------------------------------------------------
(* Claims about the leak of the bucket, checked under SpecDecay *)

\* no admission of the tenant was released since the start
Unreleased(d) == portals[d].present /\ hRelCount[d] = 0

C37_IdleWitness ==
  /\ scenario = "idle"
  /\ hRelCount[Tenant] = 1
  /\ portals[Tenant].counter = OneRequest

-----------------------------------------------------------------------------
(* Claims about processQueue of the queue-capped variant, checked under SpecCapped *)

\* C39: in the queue-capped variant, one processQueue activation that finds the tenant
\* blocked, or the next allowed request time still ahead, while admissions are queued
\* schedules exactly one timer wake-up and returns: it does not re-enter processQueue from
\* its finally block without bound, and the number of pending timers stays bounded.  Here:
\* the processQueue run of an accepted enqueueRequest arms at most one timer and does not
\* use up the call stack.
C39_OneWakeUp ==
  (hCall.id > 0 /\ ~hCall.rejected) =>
    /\ hCall.armed <= 1
    /\ ~hCall.exhausted

====
